---------------------------- MODULE Spec2Model ----------------------------
(***************************************************************************)
(* Model of the siglent-visa client library: model detection from the      *)
(* *IDN? response (factory.py), the instrument factory with its transient  *)
(* detection connection (factory.py, visa_instruments.py) and the          *)
(* validating setters of the SDG1000 and SDG2000X facades.                 *)
(*                                                                         *)
(* Strings are sequences of one-character strings, so that split, strip    *)
(* and the regular-expression search are computed character by character.  *)
(***************************************************************************)
EXTENDS Integers, Sequences, FiniteSets, TLC

VARIABLES
    idn,        \* detection: the string handed to detect_model_from_idn
    detOut,     \* detection: "none" before the call, then a family or the error
    modelName,  \* validation: the name handed to validate_model_name
    valOut,     \* validation: <<>> before the call, then <<the tuple returned>>
    call,       \* factory: the call in progress, [fn, model_hint]
    pc,         \* factory: position of the call in its code
    devIdn,     \* the *IDN? line the connected device answers with
    temp_instrument,  \* factory local: index of the transient connection, 0 for None
    idn_response,     \* factory local: the *IDN? response read
    model_family,     \* factory local: the detected family
    exc,        \* factory: the exception in flight, "none" when there is none
    conns,      \* transport: the connections opened so far, in order
    events,     \* transport and detection steps of the call, in order
    outcome,    \* factory: what the call gave its caller
    facade,     \* the class of the facade in the caller's hands, "none" if none
    dev,        \* the instrument: per channel its waveform kind and load
    last        \* the last setter call on the facade and what it did

detVars == <<idn, detOut, modelName, valOut>>

facVars == <<call, pc, devIdn, temp_instrument, idn_response, model_family, exc,
             conns, events, outcome, facade>>

setVars == <<dev, last>>

vars == <<detVars, facVars, setVars>>

(***************************************************************************)
(* Python str helpers used by detect_model_from_idn.                       *)
(***************************************************************************)
\* str.strip() strips whitespace; the model alphabet has blank and newline.
Whitespace == {" ", "\n"}

Digits == {"0", "1", "2", "3", "4", "5", "6", "7", "8", "9"}

UpperOf ==
    [c \in {"s", "d", "g", "x", "a"} |->
        CASE c = "s" -> "S" [] c = "d" -> "D" [] c = "g" -> "G"
          [] c = "x" -> "X" [] c = "a" -> "A"]

\* re.IGNORECASE: both sides compared after case folding.
Fold(c) == IF c \in DOMAIN UpperOf THEN UpperOf[c] ELSE c

Letters == {"S", "D", "G", "X", "A", "V", "M", "F"}

IsLetter(c) == Fold(c) \in Letters

RECURSIVE LStrip(_)
LStrip(s) ==
    IF s # <<>> /\ Head(s) \in Whitespace THEN LStrip(Tail(s)) ELSE s

RECURSIVE RStrip(_)
RStrip(s) ==
    IF s # <<>> /\ s[Len(s)] \in Whitespace
    THEN RStrip(SubSeq(s, 1, Len(s) - 1))
    ELSE s

Strip(s) == RStrip(LStrip(s))

\* str.split(','): always at least one field; "" splits into [""].
RECURSIVE SplitFrom(_, _, _)
SplitFrom(s, i, cur) ==
    IF i > Len(s) THEN <<cur>>
    ELSE IF s[i] = ","
         THEN <<cur>> \o SplitFrom(s, i + 1, <<>>)
         ELSE SplitFrom(s, i + 1, Append(cur, s[i]))

Split(s) == SplitFrom(s, 1, <<>>)

(***************************************************************************)
(* The regular expressions of the factory.  A pattern is a sequence of     *)
(* tokens: a literal character, "\\d" (one digit) or "[A-Z]*" (any run of  *)
(* letters); \d{3} is written as three "\\d" tokens.                       *)
(***************************************************************************)
SDG1000_PATTERNS ==
    << <<"S", "D", "G", "1", "\\d", "\\d", "\\d", "[A-Z]*">>,
       <<"S", "D", "G", "1", "0", "\\d", "\\d", "[A-Z]*">> >>

SDG2000X_PATTERNS ==
    << <<"S", "D", "G", "2", "\\d", "\\d", "\\d", "X", "[A-Z]*">>,
       <<"S", "D", "G", "2", "0", "\\d", "\\d", "X", "[A-Z]*">> >>

SDG6000X_PATTERNS ==
    << <<"S", "D", "G", "6", "\\d", "\\d", "\\d", "X", "[A-Z]*">>,
       <<"S", "D", "G", "6", "0", "\\d", "\\d", "X", "[A-Z]*">> >>

TokenMatches(t, c) ==
    IF t = "\\d" THEN c \in Digits ELSE Fold(c) = Fold(t)

\* The pattern p from token k on matches s starting at position i.
RECURSIVE MatchAt(_, _, _, _)
MatchAt(p, k, s, i) ==
    IF k > Len(p) THEN TRUE
    ELSE IF p[k] = "[A-Z]*"
         THEN \/ (i <= Len(s) /\ IsLetter(s[i]) /\ MatchAt(p, k, s, i + 1))
              \/ MatchAt(p, k + 1, s, i)
         ELSE i <= Len(s) /\ TokenMatches(p[k], s[i]) /\ MatchAt(p, k + 1, s, i + 1)

\* The pattern p from token k on matches s from position i to its end.
RECURSIVE FullMatchAt(_, _, _, _)
FullMatchAt(p, k, s, i) ==
    IF k > Len(p) THEN i = Len(s) + 1
    ELSE IF p[k] = "[A-Z]*"
         THEN \/ (i <= Len(s) /\ IsLetter(s[i]) /\ FullMatchAt(p, k, s, i + 1))
              \/ FullMatchAt(p, k + 1, s, i)
         ELSE i <= Len(s) /\ TokenMatches(p[k], s[i]) /\ FullMatchAt(p, k + 1, s, i + 1)

\* Variant: re.fullmatch in place of re.search.
re_fullmatch(p, s) == FullMatchAt(p, 1, s, 1)

\* re.search(pattern, s, re.IGNORECASE) is not None
re_search(p, s) == \E i \in 1..(Len(s) + 1) : MatchAt(p, 1, s, i)

AnyPatternMatches(patterns, s) ==
    \E j \in 1..Len(patterns) : re_search(patterns[j], s)

UnsupportedModelError == "UnsupportedModelError"

Families == {"SDG1000", "SDG2000X", "SDG6000X"}

FamilyOrder == <<"SDG1000", "SDG2000X", "SDG6000X">>

\* SiglentInstrumentFactory.get_model_patterns
get_model_patterns(family) ==
    CASE family = "SDG1000"  -> SDG1000_PATTERNS
      [] family = "SDG2000X" -> SDG2000X_PATTERNS
      [] family = "SDG6000X" -> SDG6000X_PATTERNS
      [] OTHER -> <<>>

\* Variant without the field-count check: the last field is the designator.
detect_without_field_check(response) ==
    LET parts == Split(Strip(response))
        model_name == Strip(parts[Len(parts)]) IN
    IF AnyPatternMatches(SDG1000_PATTERNS, model_name) THEN "SDG1000"
    ELSE IF AnyPatternMatches(SDG2000X_PATTERNS, model_name) THEN "SDG2000X"
    ELSE IF AnyPatternMatches(SDG6000X_PATTERNS, model_name) THEN "SDG6000X"
    ELSE UnsupportedModelError

\* Variant that reads the designator from the first field (index off by one).
detect_from_first_field(response) ==
    IF response = <<>> THEN UnsupportedModelError
    ELSE LET parts == Split(Strip(response)) IN
         IF Len(parts) < 2 THEN UnsupportedModelError
         ELSE LET model_name == Strip(parts[1]) IN
              IF AnyPatternMatches(SDG1000_PATTERNS, model_name) THEN "SDG1000"
              ELSE IF AnyPatternMatches(SDG2000X_PATTERNS, model_name) THEN "SDG2000X"
              ELSE IF AnyPatternMatches(SDG6000X_PATTERNS, model_name) THEN "SDG6000X"
              ELSE UnsupportedModelError

\* Variant that tries the SDG2000X patterns before the SDG1000 patterns.
detect_sdg2000x_first(response) ==
    IF response = <<>> THEN UnsupportedModelError
    ELSE LET parts == Split(Strip(response)) IN
         IF Len(parts) < 2 THEN UnsupportedModelError
         ELSE LET model_name == Strip(parts[2]) IN
              IF AnyPatternMatches(SDG2000X_PATTERNS, model_name) THEN "SDG2000X"
              ELSE IF AnyPatternMatches(SDG1000_PATTERNS, model_name) THEN "SDG1000"
              ELSE IF AnyPatternMatches(SDG6000X_PATTERNS, model_name) THEN "SDG6000X"
              ELSE UnsupportedModelError

\* SiglentInstrumentFactory.detect_model_from_idn: a family, or the error.
detect_model_from_idn(response) ==
    IF response = <<>> THEN UnsupportedModelError
    ELSE LET parts == Split(Strip(response)) IN
         IF Len(parts) < 2 THEN UnsupportedModelError
         ELSE LET model_name == Strip(parts[2]) IN
              IF AnyPatternMatches(SDG1000_PATTERNS, model_name) THEN "SDG1000"
              ELSE IF AnyPatternMatches(SDG2000X_PATTERNS, model_name) THEN "SDG2000X"
              ELSE IF AnyPatternMatches(SDG6000X_PATTERNS, model_name) THEN "SDG6000X"
              ELSE UnsupportedModelError


(***************************************************************************)
(* Inputs of the detection check: identification strings assembled from    *)
(* designators around the registered patterns (right and wrong family      *)
(* digit, too few digits, lower case, suffixes, blanks), designators that  *)
(* contain two model names, and the shapes of the *IDN? line (empty, no    *)
(* comma, two fields, four fields, padded, designator in the wrong field). *)
(***************************************************************************)
DesignatorPrefixes == {<<>>, <<" ">>, <<"A">>}

DesignatorHeads == {<<"S", "D", "G">>, <<"s", "d", "g">>, <<"S", "D">>}

DesignatorSeries == {<<"1">>, <<"2">>, <<"6">>, <<"3">>}

DesignatorNumbers == {<<"0", "2", "5">>, <<"0", "4", "2">>, <<"1", "2", "2">>, <<"0", "4">>}

DesignatorSuffixes == {<<>>, <<"X">>, <<"x">>, <<"X", "A">>, <<" ">>, <<"-", "X">>}

SimpleDesignators ==
    {p \o h \o f \o n \o x :
        p \in DesignatorPrefixes, h \in DesignatorHeads, f \in DesignatorSeries,
        n \in DesignatorNumbers, x \in DesignatorSuffixes}

ModelNames ==
    { <<"S", "D", "G", "1", "0", "2", "5">>,
      <<"S", "D", "G", "2", "0", "4", "2", "X">>,
      <<"S", "D", "G", "6", "0", "3", "2", "X">>,
      <<"M", "1", "2", "3">> }

\* Two model names in one designator, directly adjacent or separated.
DoubleDesignators ==
    {a \o sep \o b : a \in ModelNames, b \in ModelNames, sep \in {<<>>, <<"-">>}}

Designators == SimpleDesignators \cup DoubleDesignators \cup {<<>>}

Manufacturers == {<<"V">>, <<>>, <<"S", "D", "G", "1", "0", "2", "5">>}

Comma == <<",">>

IdnShapes == {"empty", "blank", "one", "two", "four", "padded", "third", "trailing"}

IdnOf(shape, m, d) ==
    CASE shape = "empty"    -> <<>>
      [] shape = "blank"    -> <<" ">>
      [] shape = "one"      -> d
      [] shape = "two"      -> m \o Comma \o d
      [] shape = "four"     -> m \o Comma \o d \o Comma \o <<"S", "1">> \o Comma \o <<"F", "2">>
      [] shape = "padded"   -> <<" ">> \o m \o Comma \o <<" ">> \o d \o <<" ">> \o Comma
                                 \o <<"S", "1">> \o Comma \o <<"F", "2", "\n">>
      [] shape = "third"    -> m \o Comma \o Comma \o d
      [] shape = "trailing" -> m \o Comma \o d \o Comma

IdnInputs ==
    {IdnOf(sh, m, d) : sh \in IdnShapes, m \in Manufacturers, d \in Designators}

DetInit ==
    /\ idn \in IdnInputs
    /\ detOut = "none"
    /\ modelName = <<>>
    /\ valOut = <<>>

\* The detection check at rest, for the specifications that do not use it.
DetIdle ==
    /\ idn = <<>>
    /\ detOut = "none"
    /\ modelName = <<>>
    /\ valOut = <<>>

\* One call of detect_model_from_idn on the chosen string.
DetectCall ==
    /\ detOut = "none"
    /\ detOut' = detect_model_from_idn(idn)
    /\ UNCHANGED <<idn, modelName, valOut, facVars, setVars>>

(***************************************************************************)
(* The transport (pyvisa), as the factory sees it: open_resource, query    *)
(* and close each either succeed or raise.  A connection is live from a    *)
(* successful open until a successful close; a close that raises leaves it *)
(* as it was.                                                              *)
(***************************************************************************)
\* Optional values: None, or <<v>> for a value v.
None == <<>>

Some(v) == <<v>>

TransportError == "TransportError"

Event(op, ok) == [op |-> op, ok |-> ok]

\* VisaInstruments.__init__: open_resource on the address; on success the new
\* connection is appended, on failure nothing was opened.
VisaInstruments_init(cs, role, ok) ==
    IF ok
    THEN Append(cs, [role |-> role, live |-> TRUE, closeCalls |-> 0, closeRaised |-> FALSE])
    ELSE cs

\* instr.close() on connection i.
instr_close(cs, i, ok) ==
    [cs EXCEPT ![i] = [@ EXCEPT !.closeCalls = @ + 1,
                                !.live = IF ok THEN FALSE ELSE @,
                                !.closeRaised = ~ok]]

Returned(v) == [kind |-> "returned", value |-> v]

Raised(e) == [kind |-> "raised", value |-> e]

NoOutcome == [kind |-> "none", value |-> None]

\* model_hint values: absent, the empty string, the two implemented families,
\* the declared family, an unknown name.
ModelHints ==
    {None, Some(""), Some("SDG1000"), Some("SDG2000X"), Some("SDG6000X"), Some("SDG3000")}

\* Python truth value of model_hint
HintGiven(h) == h # None /\ h[1] # ""

DeviceIdns ==
    { <<"V", ",", "S", "D", "G", "1", "0", "2", "5", ",", "S", "1", ",", "F", "2">>,
      <<"V", ",", "S", "D", "G", "2", "0", "4", "2", "X", ",", "S", "1", ",", "F", "2">>,
      <<"V", ",", "S", "D", "G", "6", "0", "3", "2", "X", ",", "S", "1", ",", "F", "2">>,
      <<"V", ",", "M", "1", "2", "3", ",", "S", "1", ",", "F", "2">>,
      <<"S", "D", "G", "1", "0", "2", "5">>,
      <<>> }

\* The facade check at rest, for the specifications that do not use it.
SetIdle ==
    /\ dev = [ch |-> "C1", wvtp |-> "SINE", load |-> 50]
    /\ last = [op |-> "none"]

FacIdle ==
    /\ call = [fn |-> "none", model_hint |-> None]
    /\ pc = "idle"
    /\ devIdn = <<>>
    /\ temp_instrument = 0
    /\ idn_response = <<>>
    /\ model_family = "none"
    /\ exc = "none"
    /\ conns = <<>>
    /\ events = <<>>
    /\ outcome = NoOutcome
    /\ facade = "none"

FacInit ==
    /\ call = [fn |-> "none", model_hint |-> None]
    /\ pc = "idle"
    /\ devIdn \in DeviceIdns
    /\ temp_instrument = 0
    /\ idn_response = <<>>
    /\ model_family = "none"
    /\ exc = "none"
    /\ conns = <<>>
    /\ events = <<>>
    /\ outcome = NoOutcome
    /\ facade = "none"

(***************************************************************************)
(* SiglentInstrumentFactory.create_instrument                              *)
(***************************************************************************)
\* Variant of the hint branch that opens the connection before it looks at
\* the hint.
create_instrument_open_before_hint_check ==
    /\ pc = "idle"
    /\ \E h \in {x \in ModelHints : HintGiven(x)}, ok \in BOOLEAN :
        /\ call' = [fn |-> "create_instrument", model_hint |-> h]
        /\ events' = Append(events, Event("open", ok))
        /\ conns' = VisaInstruments_init(conns, "real", ok)
        /\ outcome' = IF ~ok THEN Raised(TransportError)
                      ELSE IF h[1] \in {"SDG1000", "SDG2000X"}
                      THEN Returned([class |-> h[1], conn |-> Len(conns')])
                      ELSE Raised(UnsupportedModelError)
    /\ pc' = "done"
    /\ UNCHANGED <<devIdn, temp_instrument, idn_response, model_family, exc>>
    /\ facade' = IF outcome'.kind = "returned" THEN outcome'.value.class ELSE facade
    /\ UNCHANGED <<detVars, setVars>>

\* Variant of the hint branch that confirms the hint with an *IDN? query.
create_instrument_hint_with_query ==
    /\ pc = "idle"
    /\ \E h \in {x \in ModelHints : HintGiven(x)}, ok \in BOOLEAN :
        /\ call' = [fn |-> "create_instrument", model_hint |-> h]
        /\ IF h[1] \in {"SDG1000", "SDG2000X"}
           THEN /\ events' = IF ok THEN events \o <<Event("open", ok), Event("query", TRUE)>>
                             ELSE Append(events, Event("open", ok))
                /\ conns' = VisaInstruments_init(conns, "real", ok)
                /\ outcome' = IF ok THEN Returned([class |-> h[1], conn |-> Len(conns')])
                              ELSE Raised(TransportError)
           ELSE /\ outcome' = Raised(UnsupportedModelError)
                /\ UNCHANGED <<events, conns>>
    /\ pc' = "done"
    /\ UNCHANGED <<devIdn, temp_instrument, idn_response, model_family, exc>>
    /\ facade' = IF outcome'.kind = "returned" THEN outcome'.value.class ELSE facade
    /\ UNCHANGED <<detVars, setVars>>

\* create_instrument with a hint: construct the named facade, no detection.
\* An error of the constructor is outside the try block and reaches the
\* caller as it is.
create_instrument_with_hint ==
    /\ pc = "idle"
    /\ \E h \in {x \in ModelHints : HintGiven(x)}, ok \in BOOLEAN :
        /\ call' = [fn |-> "create_instrument", model_hint |-> h]
        /\ IF h[1] \in {"SDG1000", "SDG2000X"}
           THEN /\ events' = Append(events, Event("open", ok))
                /\ conns' = VisaInstruments_init(conns, "real", ok)
                /\ outcome' = IF ok THEN Returned([class |-> h[1], conn |-> Len(conns')])
                              ELSE Raised(TransportError)
           ELSE /\ outcome' = Raised(UnsupportedModelError)
                /\ UNCHANGED <<events, conns>>
    /\ pc' = "done"
    /\ UNCHANGED <<devIdn, temp_instrument, idn_response, model_family, exc>>
    /\ facade' = IF outcome'.kind = "returned" THEN outcome'.value.class ELSE facade
    /\ UNCHANGED <<detVars, setVars>>

\* temp_instrument = SDG2000X(address), inside the try block
create_instrument_open_temp ==
    /\ pc = "idle"
    /\ \E h \in {x \in ModelHints : ~HintGiven(x)}, ok \in BOOLEAN :
        /\ call' = [fn |-> "create_instrument", model_hint |-> h]
        /\ events' = Append(events, Event("open", ok))
        /\ conns' = VisaInstruments_init(conns, "temp", ok)
        /\ temp_instrument' = IF ok THEN Len(conns') ELSE 0
        /\ exc' = IF ok THEN "none" ELSE TransportError
        /\ pc' = IF ok THEN "ci_query" ELSE "ci_except"
    /\ UNCHANGED <<devIdn, idn_response, model_family, outcome>>
    /\ UNCHANGED facade
    /\ UNCHANGED <<detVars, setVars>>

\* idn_response = temp_instrument.instr.query('*IDN?')
create_instrument_query_idn ==
    /\ pc = "ci_query"
    /\ \E ok \in BOOLEAN :
        /\ events' = Append(events, Event("query", ok))
        /\ idn_response' = IF ok THEN devIdn ELSE idn_response
        /\ exc' = IF ok THEN "none" ELSE TransportError
        /\ pc' = IF ok THEN "ci_detect" ELSE "ci_except"
    /\ UNCHANGED <<call, devIdn, temp_instrument, model_family, conns, outcome>>
    /\ UNCHANGED facade
    /\ UNCHANGED <<detVars, setVars>>

\* model_family = cls.detect_model_from_idn(idn_response)
create_instrument_detect ==
    /\ pc = "ci_detect"
    /\ LET r == detect_model_from_idn(idn_response) IN
        /\ events' = Append(events, Event("detect", r # UnsupportedModelError))
        /\ IF r = UnsupportedModelError
           THEN /\ exc' = UnsupportedModelError
                /\ pc' = "ci_except"
                /\ UNCHANGED model_family
           ELSE /\ model_family' = r
                /\ pc' = "ci_close"
                /\ UNCHANGED exc
    /\ UNCHANGED <<call, devIdn, temp_instrument, idn_response, conns, outcome>>
    /\ UNCHANGED facade
    /\ UNCHANGED <<detVars, setVars>>

\* Variant that forgets the transient connection without closing it.
create_instrument_drop_temp ==
    /\ pc = "ci_close"
    /\ temp_instrument' = 0
    /\ pc' = "ci_construct"
    /\ UNCHANGED <<call, devIdn, idn_response, model_family, exc, conns, events, outcome>>
    /\ UNCHANGED facade
    /\ UNCHANGED <<detVars, setVars>>

\* temp_instrument.instr.close(); temp_instrument = None
create_instrument_close_temp ==
    /\ pc = "ci_close"
    /\ \E ok \in BOOLEAN :
        /\ events' = Append(events, Event("close", ok))
        /\ conns' = instr_close(conns, temp_instrument, ok)
        /\ temp_instrument' = IF ok THEN 0 ELSE temp_instrument
        /\ exc' = IF ok THEN "none" ELSE TransportError
        /\ pc' = IF ok THEN "ci_construct" ELSE "ci_except"
    /\ UNCHANGED <<call, devIdn, idn_response, model_family, outcome>>
    /\ UNCHANGED facade
    /\ UNCHANGED <<detVars, setVars>>

\* The construction of the facade for the detected family.
\* Variant that constructs the SDG2000X class whatever family was detected.
create_instrument_construct_fixed_class ==
    /\ pc = "ci_construct"
    /\ IF model_family \in {"SDG1000", "SDG2000X"}
       THEN \E ok \in BOOLEAN :
            /\ events' = Append(events, Event("open", ok))
            /\ conns' = VisaInstruments_init(conns, "real", ok)
            /\ IF ok
               THEN /\ outcome' = Returned([class |-> "SDG2000X", conn |-> Len(conns')])
                    /\ pc' = "done"
                    /\ UNCHANGED exc
               ELSE /\ exc' = TransportError
                    /\ pc' = "ci_except"
                    /\ UNCHANGED outcome
       ELSE /\ exc' = UnsupportedModelError
            /\ pc' = "ci_except"
            /\ UNCHANGED <<events, conns, outcome>>
    /\ UNCHANGED <<call, devIdn, temp_instrument, idn_response, model_family>>
    /\ facade' = IF pc' = "done" THEN "SDG2000X" ELSE facade
    /\ UNCHANGED <<detVars, setVars>>

\* The detected class is constructed on the address: SDG1000(address) or
\* SDG2000X(address); any other family raises UnsupportedModelError.
create_instrument_construct ==
    /\ pc = "ci_construct"
    /\ IF model_family \in {"SDG1000", "SDG2000X"}
       THEN \E ok \in BOOLEAN :
            /\ events' = Append(events, Event("open", ok))
            /\ conns' = VisaInstruments_init(conns, "real", ok)
            /\ IF ok
               THEN /\ outcome' = Returned([class |-> model_family, conn |-> Len(conns')])
                    /\ pc' = "done"
                    /\ UNCHANGED exc
               ELSE /\ exc' = TransportError
                    /\ pc' = "ci_except"
                    /\ UNCHANGED outcome
       ELSE /\ exc' = UnsupportedModelError
            /\ pc' = "ci_except"
            /\ UNCHANGED <<events, conns, outcome>>
    /\ UNCHANGED <<call, devIdn, temp_instrument, idn_response, model_family>>
    /\ facade' = IF pc' = "done" THEN model_family ELSE facade
    /\ UNCHANGED <<detVars, setVars>>

\* Variant of the handler without the cleanup of the transient connection.
create_instrument_except_no_cleanup ==
    /\ pc = "ci_except"
    /\ outcome' = Raised(UnsupportedModelError)
    /\ exc' = "none"
    /\ pc' = "done"
    /\ UNCHANGED <<call, devIdn, temp_instrument, idn_response, model_family, conns, events>>
    /\ facade' = IF outcome'.kind = "returned" THEN outcome'.value.class ELSE facade
    /\ UNCHANGED <<detVars, setVars>>

\* except Exception: close the transient connection if there is one (an error
\* of close is swallowed), then raise UnsupportedModelError, the original one
\* or one that wraps the other exception.
create_instrument_except ==
    /\ pc = "ci_except"
    /\ IF temp_instrument # 0
       THEN \E ok \in BOOLEAN :
            /\ events' = Append(events, Event("close", ok))
            /\ conns' = instr_close(conns, temp_instrument, ok)
       ELSE UNCHANGED <<events, conns>>
    /\ outcome' = Raised(UnsupportedModelError)
    /\ exc' = "none"
    /\ pc' = "done"
    /\ UNCHANGED <<call, devIdn, temp_instrument, idn_response, model_family>>
    /\ facade' = IF outcome'.kind = "returned" THEN outcome'.value.class ELSE facade
    /\ UNCHANGED <<detVars, setVars>>

(***************************************************************************)
(* detect_siglent_model                                                    *)
(***************************************************************************)
\* temp_instrument = SDG2000X(address), inside try ... finally
detect_siglent_model_open_temp ==
    /\ pc = "idle"
    /\ \E ok \in BOOLEAN :
        /\ events' = Append(events, Event("open", ok))
        /\ conns' = VisaInstruments_init(conns, "temp", ok)
        /\ temp_instrument' = IF ok THEN Len(conns') ELSE 0
        /\ exc' = IF ok THEN "none" ELSE TransportError
        /\ pc' = IF ok THEN "ds_query" ELSE "ds_finally"
    /\ call' = [fn |-> "detect_siglent_model", model_hint |-> None]
    /\ UNCHANGED <<devIdn, idn_response, model_family, outcome>>
    /\ UNCHANGED facade
    /\ UNCHANGED <<detVars, setVars>>

\* idn_response = temp_instrument.instr.query('*IDN?')
detect_siglent_model_query_idn ==
    /\ pc = "ds_query"
    /\ \E ok \in BOOLEAN :
        /\ events' = Append(events, Event("query", ok))
        /\ idn_response' = IF ok THEN devIdn ELSE idn_response
        /\ exc' = IF ok THEN "none" ELSE TransportError
        /\ pc' = IF ok THEN "ds_detect" ELSE "ds_finally"
    /\ UNCHANGED <<call, devIdn, temp_instrument, model_family, conns, outcome>>
    /\ UNCHANGED facade
    /\ UNCHANGED <<detVars, setVars>>

\* return SiglentInstrumentFactory.detect_model_from_idn(idn_response)
detect_siglent_model_detect ==
    /\ pc = "ds_detect"
    /\ LET r == detect_model_from_idn(idn_response) IN
        /\ events' = Append(events, Event("detect", r # UnsupportedModelError))
        /\ IF r = UnsupportedModelError
           THEN exc' = UnsupportedModelError /\ UNCHANGED model_family
           ELSE model_family' = r /\ UNCHANGED exc
    /\ pc' = "ds_finally"
    /\ UNCHANGED <<call, devIdn, temp_instrument, idn_response, conns, outcome>>
    /\ UNCHANGED facade
    /\ UNCHANGED <<detVars, setVars>>

\* Variant of the finally block that does not close the connection.
detect_siglent_model_finally_no_close ==
    /\ pc = "ds_finally"
    /\ outcome' = IF exc # "none" THEN Raised(exc) ELSE Returned(model_family)
    /\ exc' = "none"
    /\ pc' = "done"
    /\ UNCHANGED <<call, devIdn, temp_instrument, idn_response, model_family, conns, events>>
    /\ UNCHANGED facade
    /\ UNCHANGED <<detVars, setVars>>

\* finally: close the connection if it was opened (an error of close is
\* swallowed); then the pending exception propagates unchanged, or the
\* detected family is returned.
detect_siglent_model_finally ==
    /\ pc = "ds_finally"
    /\ IF temp_instrument # 0
       THEN \E ok \in BOOLEAN :
            /\ events' = Append(events, Event("close", ok))
            /\ conns' = instr_close(conns, temp_instrument, ok)
       ELSE UNCHANGED <<events, conns>>
    /\ outcome' = IF exc # "none" THEN Raised(exc) ELSE Returned(model_family)
    /\ exc' = "none"
    /\ pc' = "done"
    /\ UNCHANGED <<call, devIdn, temp_instrument, idn_response, model_family>>
    /\ UNCHANGED facade
    /\ UNCHANGED <<detVars, setVars>>

Next ==
    \/ create_instrument_with_hint
    \/ create_instrument_open_temp
    \/ create_instrument_query_idn
    \/ create_instrument_detect
    \/ create_instrument_close_temp
    \/ create_instrument_construct
    \/ create_instrument_except
    \/ detect_siglent_model_open_temp
    \/ detect_siglent_model_query_idn
    \/ detect_siglent_model_detect
    \/ detect_siglent_model_finally

Init == FacInit /\ DetIdle /\ SetIdle

Spec == Init /\ [][Next]_vars

DetNext == DetectCall

InitDetect == DetInit /\ FacIdle /\ SetIdle

SpecDetect == InitDetect /\ [][DetNext]_vars


(***************************************************************************)
(* Numbers.  The program computes with Python floats; the model holds a    *)
(* number as a decimal m * 10^e and compares exactly, by sign, then by     *)
(* order of magnitude, then by mantissa at a common exponent.  For the     *)
(* short decimals the inputs and the limits are, this is the order of the  *)
(* floats.  Burst cycles, loads and point counts are integers.             *)
(***************************************************************************)
Dec(m, e) == [m |-> m, e |-> e]

RECURSIVE Pow10(_)
Pow10(k) == IF k = 0 THEN 1 ELSE 10 * Pow10(k - 1)

RECURSIVE NumDigits(_)
NumDigits(n) == IF n < 10 THEN 1 ELSE 1 + NumDigits(n \div 10)

Abs(n) == IF n < 0 THEN -n ELSE n

Sign(a) == IF a.m > 0 THEN 1 ELSE IF a.m < 0 THEN -1 ELSE 0

\* Position of the leading digit: 10^(Magnitude - 1) <= |a| < 10^Magnitude.
Magnitude(a) == a.e + NumDigits(Abs(a.m))

PosLess(a, b) ==
    IF Magnitude(a) # Magnitude(b) THEN Magnitude(a) < Magnitude(b)
    ELSE LET e0 == IF a.e < b.e THEN a.e ELSE b.e IN
         a.m * Pow10(a.e - e0) < b.m * Pow10(b.e - e0)

float_neg(a) == Dec(-a.m, a.e)

\* a < b
float_lt(a, b) ==
    CASE Sign(a) # Sign(b) -> Sign(a) < Sign(b)
      [] Sign(a) = Sign(b) /\ Sign(a) = 0 -> FALSE
      [] Sign(a) = Sign(b) /\ Sign(a) = 1 -> PosLess(a, b)
      [] OTHER -> PosLess(float_neg(b), float_neg(a))

\* a > b
float_gt(a, b) == float_lt(b, a)

\* abs(a)
float_abs(a) == Dec(Abs(a.m), a.e)

(***************************************************************************)
(* SDG1000: the limits of the family and its validators.  A validator is   *)
(* TRUE when it returns True and FALSE when it raises ValueError.          *)
(***************************************************************************)
HIGH_IMPEDANCE == 0

LOAD_50_OHM == 50

FREQ_MIN == Dec(1, -6)

FREQ_MAX == Dec(10, 6)

AMP_MIN == Dec(2, -3)

AMP_MAX_50_OHM == Dec(10, 0)

AMP_MAX_HIGH_Z == Dec(20, 0)

OFFSET_MAX_50_OHM == Dec(5, 0)

OFFSET_MAX_HIGH_Z == Dec(10, 0)

FREQ_MAX_RAMP == Dec(200, 3)

FREQ_MAX_PULSE == Dec(5, 6)

FREQ_MAX_NOISE == Dec(5, 6)

FREQ_MAX_ARB == Dec(5, 6)

BURST_CYCLES_MIN == 1

BURST_CYCLES_MAX == 50000

ARB_POINTS_MAX == 4096

SDG1000_supported_waveforms == {"SINE", "SQUARE", "RAMP", "PULSE", "NOISE", "ARB"}

\* Variant with exclusive bounds: the two limits themselves are rejected.
SDG1000_validate_frequency_exclusive(frequency, waveform_type) ==
    IF ~float_gt(frequency, FREQ_MIN) \/ ~float_lt(frequency, FREQ_MAX) THEN FALSE
    ELSE IF waveform_type = Some("RAMP") /\ float_gt(frequency, FREQ_MAX_RAMP) THEN FALSE
    ELSE IF waveform_type = Some("PULSE") /\ float_gt(frequency, FREQ_MAX_PULSE) THEN FALSE
    ELSE IF waveform_type = Some("NOISE") /\ float_gt(frequency, FREQ_MAX_NOISE) THEN FALSE
    ELSE IF waveform_type = Some("ARB") /\ float_gt(frequency, FREQ_MAX_ARB) THEN FALSE
    ELSE TRUE

\* Variant that applies the RAMP cap to every call, whatever the kind.
SDG1000_validate_frequency_ramp_cap_always(frequency, waveform_type) ==
    IF float_lt(frequency, FREQ_MIN) \/ float_gt(frequency, FREQ_MAX) THEN FALSE
    ELSE IF float_gt(frequency, FREQ_MAX_RAMP) THEN FALSE
    ELSE TRUE

\* SDG1000._validate_frequency; waveform_type is None or Some(kind).
SDG1000_validate_frequency(frequency, waveform_type) ==
    IF float_lt(frequency, FREQ_MIN) \/ float_gt(frequency, FREQ_MAX) THEN FALSE
    ELSE IF waveform_type = Some("RAMP") /\ float_gt(frequency, FREQ_MAX_RAMP) THEN FALSE
    ELSE IF waveform_type = Some("PULSE") /\ float_gt(frequency, FREQ_MAX_PULSE) THEN FALSE
    ELSE IF waveform_type = Some("NOISE") /\ float_gt(frequency, FREQ_MAX_NOISE) THEN FALSE
    ELSE IF waveform_type = Some("ARB") /\ float_gt(frequency, FREQ_MAX_ARB) THEN FALSE
    ELSE TRUE

\* Variant whose default branch applies the High-Z maximum.
SDG1000_validate_amplitude_default_high_z(amplitude, load_impedance) ==
    IF float_lt(amplitude, AMP_MIN) THEN FALSE
    ELSE IF load_impedance = Some(LOAD_50_OHM) THEN ~float_gt(amplitude, AMP_MAX_50_OHM)
    ELSE ~float_gt(amplitude, AMP_MAX_HIGH_Z)

\* SDG1000._validate_amplitude; load_impedance is None or Some(load).
SDG1000_validate_amplitude(amplitude, load_impedance) ==
    IF float_lt(amplitude, AMP_MIN) THEN FALSE
    ELSE IF load_impedance = Some(LOAD_50_OHM) THEN ~float_gt(amplitude, AMP_MAX_50_OHM)
    ELSE IF load_impedance = Some(HIGH_IMPEDANCE) THEN ~float_gt(amplitude, AMP_MAX_HIGH_Z)
    ELSE ~float_gt(amplitude, AMP_MAX_50_OHM)

\* SDG1000._validate_load_impedance
SDG1000_validate_load_impedance(load) == load \in {LOAD_50_OHM, HIGH_IMPEDANCE}

(***************************************************************************)
(* The instrument and its answers.  dev holds the channel the caller works *)
(* on, its waveform kind and its load (0 for High-Z).  A response is the   *)
(* list of its comma-separated fields.  A query may raise in the           *)
(* transport, and the answer may come back cut short or without the        *)
(* expected key.                                                           *)
(***************************************************************************)
Channels == {"C1", "C2"}

DeviceKinds == {"SINE", "SQUARE", "RAMP", "PULSE", "NOISE", "ARB", "DC"}

DeviceLoads == {50, 0, 75}

DeviceStates == [ch : Channels, wvtp : DeviceKinds, load : DeviceLoads]

QueryModes == {"ok", "cut", "nokey", "raise"}

\* What the channel answers to BSWV?
BSWV_response(ch, mode) ==
    CASE mode = "ok"    -> <<ch \o ":BSWV WVTP", dev.wvtp, "PHSE", "0">>
      [] mode = "cut"   -> <<ch \o ":BSWV WVTP", dev.wvtp, "PHSE">>
      [] mode = "nokey" -> <<"PHSE", "0">>
      [] mode = "odd"   -> <<ch \o ":BSWV WVTP", dev.wvtp, "PHSE", "0", "FRQ">>
      [] mode = "extra" -> <<ch \o ":BSWV WVTP", dev.wvtp, "XYZ", "1">>

LoadText(n) == CASE n = 0 -> "HZ" [] n = 50 -> "50" [] n = 75 -> "75"

\* What the channel answers to OUTP?; the first field is shown split at its blank.
OUTP_response(ch, mode) ==
    CASE mode = "ok"    -> << <<ch \o ":OUTP", "ON">>, "LOAD", LoadText(dev.load), "PLRT", "NOR">>
      [] mode = "cut"   -> << <<ch \o ":OUTP">> >>
      [] mode = "nokey" -> << <<ch \o ":OUTP", "ON">>, "PLRT", "NOR">>
      [] mode = "odd"   -> << <<ch \o ":OUTP", "ON">>, "LOAD", LoadText(dev.load), "PLRT">>
      [] mode = "extra" -> << <<ch \o ":OUTP", "ON">>, "LOAD", LoadText(dev.load), "XYZ", "1">>

\* float(value) for the values the instrument sends
ParseFloat == [t \in {"50", "75", "0"} |-> CASE t = "50" -> 50 [] t = "75" -> 75 [] t = "0" -> 0]

DecodeError == "DecodeError"

\* get_wave_info: the loop reads fields[i] and fields[i + 1] for every even
\* offset, so an odd number of fields raises; the result is None (raised) or
\* Some(dictionary), of which the model keeps the 'type' entry.
get_wave_info(response) ==
    IF Len(response) % 2 # 0 THEN None
    ELSE LET typed == {i \in 1..Len(response) :
                          i % 2 = 1 /\ response[i] \in {"C1:BSWV WVTP", "C2:BSWV WVTP"}} IN
         Some([type |-> IF typed = {} THEN None
                        ELSE Some(response[(CHOOSE i \in typed : \A j \in typed : j <= i) + 1])])

\* get_output_state: the first field must split into two words, else key is
\* unbound and the call raises; then LOAD is looked for among the pairs of the
\* rest.  None (raised) or Some(dictionary), of which the model keeps 'load'.
get_output_state(response) ==
    IF Len(response[1]) # 2 THEN None
    ELSE LET rest == Tail(response)
             loads == {i \in 1..(Len(rest) - 1) : i % 2 = 1 /\ rest[i] = "LOAD"} IN
         Some([load |-> IF loads = {} THEN None
                        ELSE LET v == rest[(CHOOSE i \in loads : \A j \in loads : j <= i) + 1] IN
                             IF v = "HZ" THEN Some(HIGH_IMPEDANCE) ELSE Some(ParseFloat[v])])

(***************************************************************************)
(* Setter calls.  last records the call: its name, the channel, its        *)
(* arguments, how the lookup query (if the setter makes one) went, the     *)
(* exception raised ("none" if it returned) and the commands written, in   *)
(* order.  A command is [ch, cmd, key, val].                               *)
(***************************************************************************)
ValueError == "ValueError"

Cmd(ch, cmd, key, val) == [ch |-> ch, cmd |-> cmd, key |-> key, val |-> val]

CallRecord(op, ch, args, lookup, raised, writes) ==
    [op |-> op, ch |-> ch, args |-> args, lookup |-> lookup,
     raised |-> raised, writes |-> writes]

\* A load argument is an int or a str.
IntV(n) == [t |-> "int", s |-> "", n |-> n]

StrV(x) == [t |-> "str", s |-> x, n |-> 0]

\* int(load): the int itself, the number a numeric string spells, None when
\* int() raises ValueError.
int_of(load) ==
    IF load.t = "int" THEN Some(load.n)
    ELSE IF load.s = "50" THEN Some(50)
    ELSE IF load.s = "75" THEN Some(75)
    ELSE None

\* The instrument takes the waveform kind and the load it is commanded, when
\* it knows the value, and the frequency where the device state has a frq
\* field; other commands do not change what the model tracks.
DeviceAfterWrite(d, w) ==
    IF w.cmd = "BSWV" /\ w.key = "WVTP" /\ w.val \in DeviceKinds
    THEN [d EXCEPT !.wvtp = w.val]
    ELSE IF w.cmd = "BSWV" /\ w.key = "FRQ" /\ "frq" \in DOMAIN d
    THEN [d EXCEPT !.frq = w.val]
    ELSE IF w.cmd = "OUTP" /\ w.key = "LOAD"
    THEN IF w.val.t = "str" /\ w.val.s = "HZ" THEN [d EXCEPT !.load = 0]
         ELSE IF w.val.t = "int" /\ w.val.n \in DeviceLoads \ {0} THEN [d EXCEPT !.load = w.val.n]
         ELSE d
    ELSE d

RECURSIVE DeviceAfter(_, _)
DeviceAfter(d, ws) ==
    IF ws = <<>> THEN d ELSE DeviceAfter(DeviceAfterWrite(d, Head(ws)), Tail(ws))

\* The effect of a setter call on the state.
Finish(rec) ==
    /\ last' = rec
    /\ dev' = DeviceAfter(dev, rec.writes)
    /\ UNCHANGED <<detVars, facVars>>

\* Python truth value of an optional number or string
Truthy(x) == x # None /\ x[1].m # 0

TruthyInt(x) == x # None /\ x[1] # 0

TruthyStr(x) == x # None /\ x[1] # ""

\* str.upper() on the state and sweep-type words the callers pass
upper(x) ==
    CASE x = "on" -> "ON" [] x = "off" -> "OFF" [] x = "lin" -> "LIN" [] x = "log" -> "LOG"
      [] OTHER -> x

\* wave_info.get('type') after a lookup that may fail: None when the query or
\* the decoding raised (bare except) or the key is missing.
current_waveform_type(ch, mode) ==
    IF mode = "raise" THEN None
    ELSE LET info == get_wave_info(BSWV_response(ch, mode)) IN
         IF info = None THEN None ELSE info[1].type

\* output_info.get('load', LOAD_50_OHM) after a lookup that may fail: the
\* 50 ohm default when the query or the decoding raised or the key is missing.
current_load_impedance(ch, mode) ==
    IF mode = "raise" THEN LOAD_50_OHM
    ELSE LET info == get_output_state(OUTP_response(ch, mode)) IN
         IF info = None THEN LOAD_50_OHM
         ELSE IF info[1].load = None THEN LOAD_50_OHM ELSE info[1].load[1]

FrequencyInputs ==
    {Dec(5, -7), Dec(1, -6), Dec(3, 5), Dec(10, 6), Dec(20, 6), Dec(50, 6)}

\* 1.0 / period for the periods the model uses: their reciprocals are exact.
Reciprocal(period) ==
    CASE period = Dec(1, -8) -> Dec(1, 8)
      [] period = Dec(1, -7) -> Dec(1, 7)
      [] period = Dec(1, -3) -> Dec(1, 3)
      [] period = Dec(2, 6)  -> Dec(5, -7)

PeriodInputs == {Dec(0, 0), Dec(-1, -3), Dec(1, -8), Dec(1, -7), Dec(1, -3), Dec(2, 6)}

AmplitudeInputs == {Dec(1, -3), Dec(2, -3), Dec(10, 0), Dec(15, 0), Dec(25, 0)}

OffsetInputs ==
    {Dec(-11, 0), Dec(-10, 0), Dec(-6, 0), Dec(-5, 0), Dec(5, 0), Dec(6, 0), Dec(10, 0),
     Dec(11, 0)}

LoadInputs ==
    {IntV(50), IntV(0), StrV("HZ"), IntV(75), IntV(1000), IntV(20000), StrV("hz")}

WaveformInputs == {"SINE", "SQUARE", "RAMP", "PULSE", "NOISE", "ARB", "DC", "sine"}

(***************************************************************************)
(* SDG1000 setters                                                         *)
(***************************************************************************)
\* Variant whose supported list also holds DC, as the SDG2000X list does.
SDG1000_set_waveform_with_dc ==
    /\ facade = "SDG1000"
    /\ \E waveform_type \in WaveformInputs :
        LET ch == dev.ch IN
        Finish(IF waveform_type \notin SDG1000_supported_waveforms \cup {"DC"}
               THEN CallRecord("set_waveform", ch, waveform_type, "n/a", ValueError, <<>>)
               ELSE CallRecord("set_waveform", ch, waveform_type, "n/a", "none",
                               <<Cmd(ch, "BSWV", "WVTP", waveform_type)>>))

SDG1000_set_waveform ==
    /\ facade = "SDG1000"
    /\ \E waveform_type \in WaveformInputs :
        LET ch == dev.ch IN
        Finish(IF waveform_type \notin SDG1000_supported_waveforms
               THEN CallRecord("set_waveform", ch, waveform_type, "n/a", ValueError, <<>>)
               ELSE CallRecord("set_waveform", ch, waveform_type, "n/a", "none",
                               <<Cmd(ch, "BSWV", "WVTP", waveform_type)>>))

\* Variant without the try/except around the lookup: a failed lookup ends
\* the call.
SDG1000_set_wave_frequency_lookup_propagates ==
    /\ facade = "SDG1000"
    /\ \E frequency \in FrequencyInputs, mode \in QueryModes :
        LET ch == dev.ch
            waveform_type == current_waveform_type(ch, mode) IN
        Finish(IF mode \in {"raise", "cut"}
               THEN CallRecord("set_wave_frequency", ch, frequency, mode, DecodeError, <<>>)
               ELSE IF ~SDG1000_validate_frequency(frequency, waveform_type)
               THEN CallRecord("set_wave_frequency", ch, frequency, mode, ValueError, <<>>)
               ELSE CallRecord("set_wave_frequency", ch, frequency, mode, "none",
                               <<Cmd(ch, "BSWV", "FRQ", frequency)>>))

SDG1000_set_wave_frequency ==
    /\ facade = "SDG1000"
    /\ \E frequency \in FrequencyInputs, mode \in QueryModes :
        LET ch == dev.ch
            waveform_type == current_waveform_type(ch, mode) IN
        Finish(IF ~SDG1000_validate_frequency(frequency, waveform_type)
               THEN CallRecord("set_wave_frequency", ch, frequency, mode, ValueError, <<>>)
               ELSE CallRecord("set_wave_frequency", ch, frequency, mode, "none",
                               <<Cmd(ch, "BSWV", "FRQ", frequency)>>))

\* Variant that validates the period itself in place of its reciprocal.
SDG1000_set_wave_period_validates_period ==
    /\ facade = "SDG1000"
    /\ \E period \in PeriodInputs, mode \in QueryModes :
        LET ch == dev.ch
            waveform_type == current_waveform_type(ch, mode) IN
        Finish(IF ~SDG1000_validate_frequency(period, waveform_type)
               THEN CallRecord("set_wave_period", ch, period, mode, ValueError, <<>>)
               ELSE CallRecord("set_wave_period", ch, period, mode, "none",
                               <<Cmd(ch, "BSWV", "PERI", period)>>))

SDG1000_set_wave_period ==
    /\ facade = "SDG1000"
    /\ \E period \in PeriodInputs, mode \in QueryModes :
        LET ch == dev.ch
            frequency == IF float_gt(period, Dec(0, 0)) THEN Reciprocal(period) ELSE Dec(0, 0)
            waveform_type == current_waveform_type(ch, mode) IN
        Finish(IF ~SDG1000_validate_frequency(frequency, waveform_type)
               THEN CallRecord("set_wave_period", ch, period, mode, ValueError, <<>>)
               ELSE CallRecord("set_wave_period", ch, period, mode, "none",
                               <<Cmd(ch, "BSWV", "PERI", period)>>))

\* Variant that validates against the High-Z limit when the lookup gave no
\* load.
SDG1000_set_wave_amplitude_default_high_z ==
    /\ facade = "SDG1000"
    /\ \E amplitude \in AmplitudeInputs, mode \in QueryModes :
        LET ch == dev.ch
            load_impedance == IF mode = "ok" THEN current_load_impedance(ch, mode)
                              ELSE HIGH_IMPEDANCE IN
        Finish(IF ~SDG1000_validate_amplitude(amplitude, Some(load_impedance))
               THEN CallRecord("set_wave_amplitude", ch, amplitude, mode, ValueError, <<>>)
               ELSE CallRecord("set_wave_amplitude", ch, amplitude, mode, "none",
                               <<Cmd(ch, "BSWV", "AMP", amplitude)>>))

SDG1000_set_wave_amplitude ==
    /\ facade = "SDG1000"
    /\ \E amplitude \in AmplitudeInputs, mode \in QueryModes :
        LET ch == dev.ch
            load_impedance == current_load_impedance(ch, mode) IN
        Finish(IF ~SDG1000_validate_amplitude(amplitude, Some(load_impedance))
               THEN CallRecord("set_wave_amplitude", ch, amplitude, mode, ValueError, <<>>)
               ELSE CallRecord("set_wave_amplitude", ch, amplitude, mode, "none",
                               <<Cmd(ch, "BSWV", "AMP", amplitude)>>))

\* Variant that compares the offset itself, not its absolute value.
SDG1000_set_wave_offset_without_abs ==
    /\ facade = "SDG1000"
    /\ \E offset \in OffsetInputs, mode \in QueryModes :
        LET ch == dev.ch
            load_impedance == current_load_impedance(ch, mode)
            max_offset == IF load_impedance = LOAD_50_OHM
                          THEN OFFSET_MAX_50_OHM ELSE OFFSET_MAX_HIGH_Z IN
        Finish(IF float_gt(offset, max_offset)
               THEN CallRecord("set_wave_offset", ch, offset, mode, ValueError, <<>>)
               ELSE CallRecord("set_wave_offset", ch, offset, mode, "none",
                               <<Cmd(ch, "BSWV", "OFST", offset)>>))

SDG1000_set_wave_offset ==
    /\ facade = "SDG1000"
    /\ \E offset \in OffsetInputs, mode \in QueryModes :
        LET ch == dev.ch
            load_impedance == current_load_impedance(ch, mode)
            max_offset == IF load_impedance = LOAD_50_OHM
                          THEN OFFSET_MAX_50_OHM ELSE OFFSET_MAX_HIGH_Z IN
        Finish(IF float_gt(float_abs(offset), max_offset)
               THEN CallRecord("set_wave_offset", ch, offset, mode, ValueError, <<>>)
               ELSE CallRecord("set_wave_offset", ch, offset, mode, "none",
                               <<Cmd(ch, "BSWV", "OFST", offset)>>))

SDG1000_set_output_load ==
    /\ facade = "SDG1000"
    /\ \E load \in LoadInputs :
        LET ch == dev.ch
            load_value == IF load.t = "str" /\ load.s = "HZ"
                          THEN Some(HIGH_IMPEDANCE) ELSE int_of(load) IN
        Finish(IF load_value = None \/ ~SDG1000_validate_load_impedance(load_value[1])
               THEN CallRecord("set_output_load", ch, load, "n/a", ValueError, <<>>)
               ELSE CallRecord("set_output_load", ch, load, "n/a", "none",
                               <<Cmd(ch, "OUTP", "LOAD",
                                     IF load_value[1] = HIGH_IMPEDANCE
                                     THEN StrV("HZ") ELSE IntV(load_value[1]))>>))

BurstStates == {"ON", "OFF"}

BurstCycleInputs == {None, Some(0), Some(1), Some(50000), Some(60000), Some(70000)}

BurstPeriodInputs == {Some(Dec(1, -3))}

TriggerInputs == {None, Some("MAN")}

BurstInputs ==
    [state : BurstStates, n_cycle : BurstCycleInputs, period : BurstPeriodInputs,
     trigger_source : TriggerInputs]

SweepStates == {"ON", "OFF"}

SweepStartInputs == {None, Some(Dec(0, 0)), Some(Dec(1, 3)), Some(Dec(20, 6))}

SweepStopInputs == {None, Some(Dec(1, 3)), Some(Dec(20, 6))}

SweepTimeInputs == {Some(Dec(1, 0))}

SweepTypeInputs == {None, Some(""), Some("LIN"), Some("lin"), Some("LOG")}

SweepInputs ==
    [state : SweepStates, start_freq : SweepStartInputs, stop_freq : SweepStopInputs,
     sweep_time : SweepTimeInputs, sweep_type : SweepTypeInputs]

\* An arbitrary waveform is held by the number of its points, len(data).
ArbInputs == [name : {"W"}, points : {0, 4096, 4097, 16385}, sample_rate : {None, Some(Dec(1, 6))}]

\* The commands after the STATE command of set_burst, for state ON.
BurstParameterWrites(ch, a) ==
    (IF TruthyInt(a.n_cycle) THEN <<Cmd(ch, "BTWV", "GATE_NCYC", a.n_cycle[1])>> ELSE <<>>)
    \o (IF Truthy(a.period) THEN <<Cmd(ch, "BTWV", "PRD", a.period[1])>> ELSE <<>>)
    \o (IF TruthyStr(a.trigger_source)
        THEN <<Cmd(ch, "BTWV", "TRSR", a.trigger_source[1])>> ELSE <<>>)

BurstWrites(ch, a) ==
    <<Cmd(ch, "BTWV", "STATE", a.state)>>
    \o (IF upper(a.state) = "ON" THEN BurstParameterWrites(ch, a) ELSE <<>>)

SDG1000_set_burst ==
    /\ facade = "SDG1000"
    /\ \E a \in BurstInputs :
        LET ch == dev.ch IN
        Finish(IF a.n_cycle # None
                  /\ ~(BURST_CYCLES_MIN <= a.n_cycle[1] /\ a.n_cycle[1] <= BURST_CYCLES_MAX)
               THEN CallRecord("set_burst", ch, a, "n/a", ValueError, <<>>)
               ELSE CallRecord("set_burst", ch, a, "n/a", "none", BurstWrites(ch, a)))

\* The tail of the sweep commands, written unvalidated: TIME and SWTP.
SweepTailWrites(ch, a) ==
    (IF Truthy(a.sweep_time) THEN <<Cmd(ch, "SWWV", "TIME", a.sweep_time[1])>> ELSE <<>>)
    \o (IF TruthyStr(a.sweep_type) THEN <<Cmd(ch, "SWWV", "SWTP", a.sweep_type[1])>> ELSE <<>>)

\* Variant that checks the sweep type where it is used, after the STATE
\* command has gone out.
SDG1000_set_sweep_type_checked_late ==
    /\ facade = "SDG1000"
    /\ \E a \in SweepInputs :
        LET ch == dev.ch
            stateCmd == <<Cmd(ch, "SWWV", "STATE", a.state)>>
            startOk == ~Truthy(a.start_freq) \/ SDG1000_validate_frequency(a.start_freq[1], None)
            stopOk == ~Truthy(a.stop_freq) \/ SDG1000_validate_frequency(a.stop_freq[1], None)
            startCmd == IF Truthy(a.start_freq)
                        THEN <<Cmd(ch, "SWWV", "STFR", a.start_freq[1])>> ELSE <<>>
            stopCmd == IF Truthy(a.stop_freq)
                       THEN <<Cmd(ch, "SWWV", "SPFR", a.stop_freq[1])>> ELSE <<>> IN
        Finish(IF upper(a.state) # "ON"
               THEN CallRecord("set_sweep", ch, a, "n/a", "none", stateCmd)
               ELSE IF ~startOk
               THEN CallRecord("set_sweep", ch, a, "n/a", ValueError, stateCmd)
               ELSE IF ~stopOk
               THEN CallRecord("set_sweep", ch, a, "n/a", ValueError, stateCmd \o startCmd)
               ELSE IF TruthyStr(a.sweep_type) /\ upper(a.sweep_type[1]) # "LIN"
               THEN CallRecord("set_sweep", ch, a, "n/a", ValueError,
                               stateCmd \o startCmd \o stopCmd)
               ELSE CallRecord("set_sweep", ch, a, "n/a", "none",
                               stateCmd \o startCmd \o stopCmd \o SweepTailWrites(ch, a)))

\* SDG1000.set_sweep: the sweep type is checked before anything is written;
\* the STATE command is written next; the start and stop frequencies are
\* validated one after the other, each just before its own command.
SDG1000_set_sweep ==
    /\ facade = "SDG1000"
    /\ \E a \in SweepInputs :
        LET ch == dev.ch
            stateCmd == <<Cmd(ch, "SWWV", "STATE", a.state)>>
            startOk == ~Truthy(a.start_freq) \/ SDG1000_validate_frequency(a.start_freq[1], None)
            stopOk == ~Truthy(a.stop_freq) \/ SDG1000_validate_frequency(a.stop_freq[1], None)
            startCmd == IF Truthy(a.start_freq)
                        THEN <<Cmd(ch, "SWWV", "STFR", a.start_freq[1])>> ELSE <<>>
            stopCmd == IF Truthy(a.stop_freq)
                       THEN <<Cmd(ch, "SWWV", "SPFR", a.stop_freq[1])>> ELSE <<>> IN
        Finish(IF TruthyStr(a.sweep_type) /\ upper(a.sweep_type[1]) # "LIN"
               THEN CallRecord("set_sweep", ch, a, "n/a", ValueError, <<>>)
               ELSE IF upper(a.state) # "ON"
               THEN CallRecord("set_sweep", ch, a, "n/a", "none", stateCmd)
               ELSE IF ~startOk
               THEN CallRecord("set_sweep", ch, a, "n/a", ValueError, stateCmd)
               ELSE IF ~stopOk
               THEN CallRecord("set_sweep", ch, a, "n/a", ValueError, stateCmd \o startCmd)
               ELSE CallRecord("set_sweep", ch, a, "n/a", "none",
                               stateCmd \o startCmd \o stopCmd \o SweepTailWrites(ch, a)))

ArbWrites(ch, a) ==
    <<Cmd(ch, "WVDT", "WVNM", a.points)>>
    \o (IF Truthy(a.sample_rate)
        THEN <<Cmd(ch, "WVDT", "SMPL_RATE", a.sample_rate[1])>> ELSE <<>>)

\* Variant that applies the 16k point limit of the SDG2000X.
SDG1000_upload_arbitrary_waveform_16k ==
    /\ facade = "SDG1000"
    /\ \E a \in ArbInputs :
        LET ch == dev.ch IN
        Finish(IF a.points > 4 * ARB_POINTS_MAX
               THEN CallRecord("upload_arbitrary_waveform", ch, a, "n/a", ValueError, <<>>)
               ELSE CallRecord("upload_arbitrary_waveform", ch, a, "n/a", "none",
                               ArbWrites(ch, a)))

SDG1000_upload_arbitrary_waveform ==
    /\ facade = "SDG1000"
    /\ \E a \in ArbInputs :
        LET ch == dev.ch IN
        Finish(IF a.points > ARB_POINTS_MAX
               THEN CallRecord("upload_arbitrary_waveform", ch, a, "n/a", ValueError, <<>>)
               ELSE CallRecord("upload_arbitrary_waveform", ch, a, "n/a", "none",
                               ArbWrites(ch, a)))

\* The setters of SDG1000 that write their argument without any check.
DirectKeys == {"SYM", "DUTY", "PHSE", "STDEV", "MEAN", "WIDTH", "RISE", "FALL", "DLY",
               "HLEV", "LLEV"}

SDG1000_set_wave_parameter ==
    /\ facade = "SDG1000"
    /\ \E key \in DirectKeys :
        LET ch == dev.ch IN
        Finish(CallRecord("set_wave_parameter", ch, key, "n/a", "none",
                          <<Cmd(ch, "BSWV", key, Dec(1, 0))>>))

(***************************************************************************)
(* SDG2000X setters: every one formats its argument into a command and     *)
(* writes it.                                                              *)
(***************************************************************************)
SDG2000X_set_waveform ==
    /\ facade = "SDG2000X"
    /\ \E type \in WaveformInputs :
        LET ch == dev.ch IN
        Finish(CallRecord("set_waveform", ch, type, "n/a", "none",
                          <<Cmd(ch, "BSWV", "WVTP", type)>>))

SDG2000X_set_wave_frequency ==
    /\ facade = "SDG2000X"
    /\ \E frequency \in FrequencyInputs :
        LET ch == dev.ch IN
        Finish(CallRecord("set_wave_frequency", ch, frequency, "n/a", "none",
                          <<Cmd(ch, "BSWV", "FRQ", frequency)>>))

SDG2000X_set_wave_period ==
    /\ facade = "SDG2000X"
    /\ \E period \in PeriodInputs :
        LET ch == dev.ch IN
        Finish(CallRecord("set_wave_period", ch, period, "n/a", "none",
                          <<Cmd(ch, "BSWV", "PERI", period)>>))

SDG2000X_set_wave_amplitude ==
    /\ facade = "SDG2000X"
    /\ \E amplitude \in AmplitudeInputs :
        LET ch == dev.ch IN
        Finish(CallRecord("set_wave_amplitude", ch, amplitude, "n/a", "none",
                          <<Cmd(ch, "BSWV", "AMP", amplitude)>>))

SDG2000X_set_wave_offset ==
    /\ facade = "SDG2000X"
    /\ \E offset \in OffsetInputs :
        LET ch == dev.ch IN
        Finish(CallRecord("set_wave_offset", ch, offset, "n/a", "none",
                          <<Cmd(ch, "BSWV", "OFST", offset)>>))

SDG2000X_set_output_load ==
    /\ facade = "SDG2000X"
    /\ \E load \in LoadInputs :
        LET ch == dev.ch IN
        Finish(CallRecord("set_output_load", ch, load, "n/a", "none",
                          <<Cmd(ch, "OUTP", "LOAD",
                                IF load.t = "int" /\ load.n = HIGH_IMPEDANCE
                                THEN StrV("HZ") ELSE load)>>))

SDG2000X_set_burst ==
    /\ facade = "SDG2000X"
    /\ \E a \in BurstInputs :
        LET ch == dev.ch IN
        Finish(CallRecord("set_burst", ch, a, "n/a", "none", BurstWrites(ch, a)))

SDG2000X_set_sweep ==
    /\ facade = "SDG2000X"
    /\ \E a \in SweepInputs :
        LET ch == dev.ch
            startCmd == IF Truthy(a.start_freq)
                        THEN <<Cmd(ch, "SWWV", "STFR", a.start_freq[1])>> ELSE <<>>
            stopCmd == IF Truthy(a.stop_freq)
                       THEN <<Cmd(ch, "SWWV", "SPFR", a.stop_freq[1])>> ELSE <<>> IN
        Finish(CallRecord("set_sweep", ch, a, "n/a", "none",
                          <<Cmd(ch, "SWWV", "STATE", a.state)>>
                          \o (IF upper(a.state) = "ON"
                              THEN startCmd \o stopCmd \o SweepTailWrites(ch, a)
                              ELSE <<>>)))

SDG2000X_upload_arbitrary_waveform ==
    /\ facade = "SDG2000X"
    /\ \E a \in ArbInputs :
        LET ch == dev.ch IN
        Finish(CallRecord("upload_arbitrary_waveform", ch, a, "n/a", "none",
                          ArbWrites(ch, a)))

\* The facade as create_instrument(address, model_hint) hands it over, on an
\* instrument in any state.
FacadeCreated ==
    /\ \E h \in {"SDG1000", "SDG2000X"} :
        /\ call = [fn |-> "create_instrument", model_hint |-> Some(h)]
        /\ outcome = Returned([class |-> h, conn |-> 1])
        /\ facade = h
    /\ pc = "done"
    /\ devIdn = <<>>
    /\ temp_instrument = 0
    /\ idn_response = <<>>
    /\ model_family = "none"
    /\ exc = "none"
    /\ conns = VisaInstruments_init(<<>>, "real", TRUE)
    /\ events = <<Event("open", TRUE)>>

SetInit ==
    /\ FacadeCreated
    /\ dev \in DeviceStates
    /\ last = [op |-> "none"]

SetNext ==
    \/ SDG1000_set_waveform
    \/ SDG1000_set_wave_frequency
    \/ SDG1000_set_wave_period
    \/ SDG1000_set_wave_amplitude
    \/ SDG1000_set_wave_offset
    \/ SDG1000_set_output_load
    \/ SDG1000_set_burst
    \/ SDG1000_set_sweep
    \/ SDG1000_upload_arbitrary_waveform
    \/ SDG1000_set_wave_parameter
    \/ SDG2000X_set_waveform
    \/ SDG2000X_set_wave_frequency
    \/ SDG2000X_set_wave_period
    \/ SDG2000X_set_wave_amplitude
    \/ SDG2000X_set_wave_offset
    \/ SDG2000X_set_output_load
    \/ SDG2000X_set_burst
    \/ SDG2000X_set_sweep
    \/ SDG2000X_upload_arbitrary_waveform

InitFacade == SetInit /\ DetIdle

SpecFacade == InitFacade /\ [][SetNext]_vars

(***************************************************************************)
(* SiglentInstrumentFactory.validate_model_name, and the check that runs   *)
(* it next to detect_model_from_idn on the same designator.                *)
(***************************************************************************)
\* all_patterns, flattened in the order the two loops visit the patterns.
all_patterns ==
    << [family |-> "SDG1000",  pattern |-> SDG1000_PATTERNS[1]],
       [family |-> "SDG1000",  pattern |-> SDG1000_PATTERNS[2]],
       [family |-> "SDG2000X", pattern |-> SDG2000X_PATTERNS[1]],
       [family |-> "SDG2000X", pattern |-> SDG2000X_PATTERNS[2]],
       [family |-> "SDG6000X", pattern |-> SDG6000X_PATTERNS[1]],
       [family |-> "SDG6000X", pattern |-> SDG6000X_PATTERNS[2]] >>

ValidationTuple(is_supported, family, pattern) ==
    [is_supported |-> is_supported, model_family |-> family, matched_pattern |-> pattern]

\* re.match in place of re.search: the pattern must match at the first character.
re_match(p, s) == MatchAt(p, 1, s, 1)

\* Variant that anchors the patterns at the start of the name.
validate_model_name_anchored(model_name) ==
    LET hits == {k \in 1..Len(all_patterns) : re_match(all_patterns[k].pattern, model_name)} IN
    IF hits = {} THEN ValidationTuple(FALSE, None, None)
    ELSE LET k == CHOOSE x \in hits : \A y \in hits : x <= y IN
         ValidationTuple(TRUE, Some(all_patterns[k].family), Some(all_patterns[k].pattern))

\* validate_model_name: the first pattern, in loop order, found in the name.
validate_model_name(model_name) ==
    LET hits == {k \in 1..Len(all_patterns) : re_search(all_patterns[k].pattern, model_name)} IN
    IF hits = {} THEN ValidationTuple(FALSE, None, None)
    ELSE LET k == CHOOSE x \in hits : \A y \in hits : x <= y IN
         ValidationTuple(TRUE, Some(all_patterns[k].family), Some(all_patterns[k].pattern))

\* The name is validated, and the line 'X,<name>' is handed to detection.
ValInit ==
    /\ modelName \in Designators
    /\ idn = <<"X">> \o Comma \o modelName
    /\ detOut = "none"
    /\ valOut = <<>>

ValidateCall ==
    /\ valOut = <<>>
    /\ valOut' = <<validate_model_name(modelName)>>
    /\ UNCHANGED <<idn, detOut, modelName, facVars, setVars>>

ValNext == DetectCall \/ ValidateCall

InitValidate == ValInit /\ FacIdle /\ SetIdle

SpecValidate == InitValidate /\ [][ValNext]_vars

(***************************************************************************)
(* Direct calls of the SDG1000 validators, as the unit tests make them.    *)
(***************************************************************************)
ValidatorFrequencyInputs ==
    {Dec(0, 0), Dec(-1, 0), Dec(999999, -12), Dec(1, -6), Dec(1000001, -12), Dec(1, 3),
     Dec(200, 3), Dec(200001, 0), Dec(5, 6), Dec(5000001, 0), Dec(9999999, 0), Dec(10, 6),
     Dec(10000001, 0), Dec(20, 6)}

ValidatorKindInputs ==
    {None, Some("SINE"), Some("SQUARE"), Some("RAMP"), Some("PULSE"), Some("NOISE"),
     Some("ARB"), Some("DC")}

ValidatorAmplitudeInputs ==
    {Dec(0, 0), Dec(1, -3), Dec(2, -3), Dec(5, 0), Dec(10, 0), Dec(10001, -3), Dec(15, 0),
     Dec(20, 0), Dec(20001, -3), Dec(25, 0)}

ValidatorLoadInputs == {None, Some(50), Some(0), Some(75), Some(1000)}

SDG1000_call_validate_frequency ==
    /\ facade = "SDG1000"
    /\ \E frequency \in ValidatorFrequencyInputs, waveform_type \in ValidatorKindInputs :
        Finish(CallRecord("_validate_frequency", dev.ch,
                          [frequency |-> frequency, waveform_type |-> waveform_type], "n/a",
                          IF SDG1000_validate_frequency(frequency, waveform_type)
                          THEN "none" ELSE ValueError,
                          <<>>))

SDG1000_call_validate_amplitude ==
    /\ facade = "SDG1000"
    /\ \E amplitude \in ValidatorAmplitudeInputs, load_impedance \in ValidatorLoadInputs :
        Finish(CallRecord("_validate_amplitude", dev.ch,
                          [amplitude |-> amplitude, load_impedance |-> load_impedance], "n/a",
                          IF SDG1000_validate_amplitude(amplitude, load_impedance)
                          THEN "none" ELSE ValueError,
                          <<>>))

SDG1000_call_validate_load_impedance ==
    /\ facade = "SDG1000"
    /\ \E load \in ValidatorLoadInputs \ {None} :
        Finish(CallRecord("_validate_load_impedance", dev.ch, [load |-> load[1]], "n/a",
                          IF SDG1000_validate_load_impedance(load[1])
                          THEN "none" ELSE ValueError,
                          <<>>))

ValidatorsNext ==
    \/ SDG1000_call_validate_frequency
    \/ SDG1000_call_validate_amplitude
    \/ SDG1000_call_validate_load_impedance

InitValidators == SetInit /\ DetIdle /\ facade = "SDG1000" /\ dev.ch = "C1"

SpecValidators == InitValidators /\ [][ValidatorsNext]_vars

\* A caller that lets create_instrument identify the device and then sets a
\* frequency on the facade it was handed.
SessionNext ==
    \/ create_instrument_open_temp
    \/ create_instrument_query_idn
    \/ create_instrument_detect
    \/ create_instrument_close_temp
    \/ create_instrument_construct
    \/ create_instrument_except
    \/ SDG1000_set_wave_frequency
    \/ SDG2000X_set_wave_frequency

InitSession == FacInit /\ DetIdle /\ SetIdle

SpecSession == InitSession /\ [][SessionNext]_vars

(***************************************************************************)
(* Properties of detection.  The fields of the identification string are   *)
(* read off the raw string by comma positions, independently of Split.     *)
(***************************************************************************)
CommaPositions(s) == {i \in 1..Len(s) : s[i] = ","}

MinOf(S) == CHOOSE x \in S : \A y \in S : x <= y

\* The text between the first comma and the second (or the end).
RawSecondField(s) ==
    LET cs == CommaPositions(s)
        c1 == MinOf(cs)
        rest == cs \ {c1}
        c2 == IF rest = {} THEN Len(s) + 1 ELSE MinOf(rest) IN
    SubSeq(s, c1 + 1, c2 - 1)

\* The string cut before its second comma: its first two fields.
FirstTwoFields(s) ==
    LET cs == CommaPositions(s)
        rest == cs \ {MinOf(cs)} IN
    IF rest = {} THEN s ELSE SubSeq(s, 1, MinOf(rest) - 1)

MatchesFamily(f, designator) == AnyPatternMatches(get_model_patterns(f), designator)

MatchedFamilies(designator) == {f \in Families : MatchesFamily(f, designator)}

FamilyRank(f) == CHOOSE k \in 1..Len(FamilyOrder) : FamilyOrder[k] = f

\* C9: detect_model_from_idn fails with UnsupportedModelError, returning no
\* family, for the empty string, for a string without a comma (fewer than two
\* fields) and for a string whose second field matches no registered pattern.
Thm_C9_DetectRejects ==
    (/\ detOut # "none"
     /\ \/ idn = <<>>
        \/ CommaPositions(idn) = {}
        \/ MatchedFamilies(RawSecondField(idn)) = {})
    => detOut = UnsupportedModelError

\* A four-field string with an unknown designator was rejected.
Wit_C9_UnknownDesignatorRejected ==
    /\ detOut = UnsupportedModelError
    /\ Cardinality(CommaPositions(idn)) = 3
    /\ RawSecondField(idn) = <<"S", "D", "G", "3", "0", "2", "5">>

\* C10 as stated: whenever the second field matches a registered pattern of a
\* family, detect_model_from_idn returns that family.
Orig_C10_EveryMatchedFamilyReturned ==
    (detOut # "none" /\ CommaPositions(idn) # {})
    => \A f \in MatchedFamilies(RawSecondField(idn)) : detOut = f

\* C10 amended: when the second field matches a registered pattern of a family
\* and of no family earlier in the priority order, detect_model_from_idn
\* returns that family; and the result is the one obtained from the first two
\* fields alone.
Thm_C10_DetectReturnsMatchedFamily ==
    (detOut # "none" /\ CommaPositions(idn) # {})
    => /\ \A f \in MatchedFamilies(RawSecondField(idn)) :
            (\A g \in MatchedFamilies(RawSecondField(idn)) : FamilyRank(f) <= FamilyRank(g))
            => detOut = f
       /\ detOut = detect_model_from_idn(FirstTwoFields(idn))

\* A padded four-field string with a lower-case designator was detected.
Wit_C10_PaddedLowerCaseDetected ==
    /\ detOut = "SDG2000X"
    /\ Cardinality(CommaPositions(idn)) = 3
    /\ idn[1] = " "
    /\ \E i \in 1..Len(idn) : idn[i] = "s"


(***************************************************************************)
(* Properties of the factory.  One call is made per behaviour, so conns    *)
(* holds exactly the connections the call opened.                          *)
(***************************************************************************)
CreateWithoutHint == call.fn = "create_instrument" /\ ~HintGiven(call.model_hint)

CreateWithHint == call.fn = "create_instrument" /\ HintGiven(call.model_hint)

LiveConns == {i \in 1..Len(conns) : conns[i].live}

EventOps == [i \in 1..Len(events) |-> events[i].op]

Orig_C5_DetectionErrorsWrapped ==
    (/\ outcome.kind = "raised"
     /\ CreateWithoutHint \/ call.fn = "detect_siglent_model")
    => outcome.value = UnsupportedModelError

\* C6: create_instrument with the hint SDG1000 or SDG2000X returns after
\* exactly one successful open and nothing else on the transport: no query,
\* no write, one live connection.
Thm_C6_HintOpensOnceNoQuery ==
    (/\ CreateWithHint
     /\ call.model_hint[1] \in {"SDG1000", "SDG2000X"}
     /\ outcome.kind = "returned")
    => /\ events = <<Event("open", TRUE)>>
       /\ Len(conns) = 1
       /\ conns[1].live
       /\ facade = call.model_hint[1]

\* A facade was built from the hint SDG1000.
Wit_C6_HintedFacadeBuilt ==
    /\ CreateWithHint
    /\ call.model_hint = Some("SDG1000")
    /\ outcome.kind = "returned"
    /\ facade = "SDG1000"

\* C7: create_instrument with the hint SDG6000X, or any other non-empty hint
\* that is not SDG1000 or SDG2000X, raises UnsupportedModelError and touches
\* the transport not at all: no open, no query, no write.
Thm_C7_UnknownHintRejectedOffline ==
    (/\ CreateWithHint
     /\ call.model_hint[1] \notin {"SDG1000", "SDG2000X"}
     /\ pc = "done")
    => /\ outcome.kind = "raised"
       /\ outcome.value = UnsupportedModelError
       /\ events = <<>>
       /\ conns = <<>>
       /\ facade = "none"

\* The hint SDG6000X was rejected.
Wit_C7_DeclaredFamilyHintRejected ==
    /\ call.fn = "create_instrument"
    /\ call.model_hint = Some("SDG6000X")
    /\ outcome.kind = "raised"

\* C8: in create_instrument without a hint at most one connection is open at
\* any time, and a successful call did open, query, detect, close, open in
\* this order and leaves exactly the facade's connection open.
Thm_C8_TransientClosedBeforeRealOpened ==
    CreateWithoutHint
    => /\ Cardinality(LiveConns) <= 1
       /\ outcome.kind = "returned"
          => /\ EventOps = <<"open", "query", "detect", "close", "open">>
             /\ \A i \in 1..Len(events) : events[i].ok
             /\ Len(conns) = 2
             /\ conns[1].role = "temp" /\ ~conns[1].live
             /\ conns[2].role = "real" /\ conns[2].live
             /\ outcome.value.conn = 2

\* Detection succeeded and the facade of the detected family was returned.
Wit_C8_DetectedFacadeReturned ==
    /\ CreateWithoutHint
    /\ outcome.kind = "returned"
    /\ facade = "SDG2000X"
    /\ Cardinality(LiveConns) = 1


(***************************************************************************)
(* Properties of the setters.                                              *)
(***************************************************************************)
\* The limits of the SDG2000X family, as the SDG1000 module states them next
\* to its own.
SDG2000X_FREQ_MAX == Dec(40, 6)

SDG2000X_BURST_CYCLES_MAX == 65535

FamilyFrequencyMax(family) == IF family = "SDG1000" THEN FREQ_MAX ELSE SDG2000X_FREQ_MAX

FamilyBurstCyclesMax(family) ==
    IF family = "SDG1000" THEN BURST_CYCLES_MAX ELSE SDG2000X_BURST_CYCLES_MAX

\* A command that carries a frequency or a burst-cycle count outside the
\* limits of the family.
OutOfRangeWrite(family, w) ==
    \/ /\ w.key \in {"FRQ", "STFR", "SPFR"}
       /\ \/ float_lt(w.val, FREQ_MIN)
          \/ float_gt(w.val, FamilyFrequencyMax(family))
    \/ /\ w.key = "GATE_NCYC"
       /\ \/ w.val < BURST_CYCLES_MIN
          \/ w.val > FamilyBurstCyclesMax(family)

SetterCalled == facade \in {"SDG1000", "SDG2000X"} /\ last.op # "none"

\* C1 (as stated): on either facade, no setter call emits a write command
\* that carries a frequency or burst-cycle value outside the family's limits;
\* such a call raises a validation error and writes nothing.
Orig_C1_NoOutOfRangeWrite ==
    SetterCalled =>
        \A i \in 1..Len(last.writes) : ~OutOfRangeWrite(facade, last.writes[i])

\* C2 (as stated): a setter call on the SDG1000 facade that raises a
\* validation error has emitted zero write commands.
Orig_C2_NoWriteOnValidationError ==
    (SetterCalled /\ facade = "SDG1000" /\ last.raised = ValueError) => last.writes = <<>>


(***************************************************************************)
(* Properties of a session: identification, then a setter call.            *)
(***************************************************************************)
\* C11: create_instrument without a hint returns a facade of exactly the
\* family detect_model_from_idn yields for the device's *IDN? answer, and the
\* facade enforces that family's limits: 20 MHz is rejected with nothing
\* written after identification as SDG1000, and written after identification
\* as SDG2000X.
Thm_C11_FacadeOfDetectedFamily ==
    (CreateWithoutHint /\ outcome.kind = "returned")
    => /\ outcome.value.class = detect_model_from_idn(devIdn)
       /\ facade = outcome.value.class
       /\ (last.op = "set_wave_frequency" /\ last.args = Dec(20, 6))
          => IF detect_model_from_idn(devIdn) = "SDG1000"
             THEN last.raised = ValueError /\ last.writes = <<>>
             ELSE /\ detect_model_from_idn(devIdn) = "SDG2000X"
                  /\ last.raised = "none"
                  /\ last.writes = <<Cmd(last.ch, "BSWV", "FRQ", Dec(20, 6))>>

\* The device answered as an SDG1025, and 20 MHz was rejected on the facade.
Wit_C11_SDG1025Rejects20MHz ==
    /\ CreateWithoutHint
    /\ outcome.kind = "returned"
    /\ RawSecondField(devIdn) = <<"S", "D", "G", "1", "0", "2", "5">>
    /\ last.op = "set_wave_frequency"
    /\ last.args = Dec(20, 6)
    /\ last.raised = ValueError


(***************************************************************************)
(* Properties of validate_model_name next to detection.                    *)
(***************************************************************************)
EarliestFamily(S) == CHOOSE f \in S : \A g \in S : FamilyRank(f) <= FamilyRank(g)

\* C12: when a designator matches patterns of one or more families,
\* detect_model_from_idn and validate_model_name both return the earliest
\* matched family in the order SDG1000, SDG2000X, SDG6000X, wherever in the
\* designator the matches lie.
Thm_C12_EarliestFamilyWins ==
    LET matched == MatchedFamilies(modelName) IN
    matched # {} =>
        /\ detOut # "none" => detOut = EarliestFamily(matched)
        /\ valOut # <<>> => valOut[1].model_family = Some(EarliestFamily(matched))

\* A designator whose SDG2000X match lies before its SDG1000 match was
\* classified SDG1000 by both functions.
Wit_C12_LaterMatchOfEarlierFamily ==
    /\ modelName = <<"S", "D", "G", "2", "0", "4", "2", "X",
                     "S", "D", "G", "1", "0", "2", "5">>
    /\ detOut = "SDG1000"
    /\ valOut # <<>>
    /\ valOut[1].model_family = Some("SDG1000")

\* C13: validate_model_name always returns a tuple, and on a designator d
\* without commas it returns (True, F, p) exactly when
\* detect_model_from_idn('X,' + d) returns F, and (False, None, None)
\* exactly when that detection raises UnsupportedModelError.
Thm_C13_ValidateAgreesWithDetect ==
    (detOut # "none" /\ valOut # <<>>)
    => /\ \A f \in Families :
            (detOut = f) <=> (/\ valOut[1].is_supported
                              /\ valOut[1].model_family = Some(f)
                              /\ valOut[1].matched_pattern # None)
       /\ (detOut = UnsupportedModelError) <=> (valOut[1] = ValidationTuple(FALSE, None, None))

\* A designator with a leading letter and lower-case letters was accepted by
\* both functions.
Wit_C13_EmbeddedNameAccepted ==
    /\ detOut = "SDG2000X"
    /\ valOut # <<>>
    /\ valOut[1].is_supported
    /\ Len(modelName) > 0
    /\ modelName[1] = "A"
    /\ \E i \in 1..Len(modelName) : modelName[i] = "s"


(***************************************************************************)
(* Properties of the SDG1000 validators.                                   *)
(***************************************************************************)
FrequencyValidated == last.op = "_validate_frequency"

AmplitudeValidated == last.op = "_validate_amplitude"

\* The cap of a waveform kind, None for a kind without one.
WaveformCap(kind) ==
    CASE kind = Some("RAMP") -> Some(FREQ_MAX_RAMP)
      [] kind = Some("PULSE") -> Some(FREQ_MAX_PULSE)
      [] kind = Some("NOISE") -> Some(FREQ_MAX_NOISE)
      [] kind = Some("ARB") -> Some(FREQ_MAX_ARB)
      [] OTHER -> None

\* C14: _validate_frequency(v) without a waveform kind succeeds for every v
\* with FREQ_MIN <= v <= FREQ_MAX, the two bounds included, and raises for
\* every v below FREQ_MIN or above FREQ_MAX.
Thm_C14_FrequencyBoundsInclusive ==
    (FrequencyValidated /\ last.args.waveform_type = None)
    => LET v == last.args.frequency IN
       /\ (v = FREQ_MIN \/ v = FREQ_MAX) => last.raised = "none"
       /\ (float_gt(v, FREQ_MIN) /\ float_lt(v, FREQ_MAX)) => last.raised = "none"
       /\ (float_lt(v, FREQ_MIN) \/ float_gt(v, FREQ_MAX)) => last.raised = ValueError

\* The maximum itself was validated without a kind and accepted.
Wit_C14_MaximumAccepted ==
    /\ FrequencyValidated
    /\ last.args.waveform_type = None
    /\ last.args.frequency = FREQ_MAX
    /\ last.raised = "none"

\* C15: a frequency within the global range fails _validate_frequency when a
\* kind with a cap is supplied and the frequency is strictly above the cap;
\* it succeeds when it equals the cap or lies below it, when the kind is
\* omitted and when the kind has no cap.
Thm_C15_WaveformCaps ==
    (/\ FrequencyValidated
     /\ ~float_lt(last.args.frequency, FREQ_MIN)
     /\ ~float_gt(last.args.frequency, FREQ_MAX))
    => LET v == last.args.frequency
           cap == WaveformCap(last.args.waveform_type) IN
       IF cap # None /\ float_gt(v, cap[1])
       THEN last.raised = ValueError
       ELSE last.raised = "none"

\* A frequency between the RAMP cap and the global maximum was rejected for
\* RAMP.
Wit_C15_AboveRampCapRejected ==
    /\ FrequencyValidated
    /\ last.args.waveform_type = Some("RAMP")
    /\ last.args.frequency = Dec(200001, 0)
    /\ last.raised = ValueError

\* C16: with an unspecified or unrecognised load _validate_amplitude applies
\* the 50 ohm maximum, the smallest configured one, so that every amplitude
\* it accepts then is accepted with each known load as well.
Thm_C16_DefaultLoadStrictest ==
    (AmplitudeValidated /\ last.args.load_impedance \notin {Some(LOAD_50_OHM), Some(HIGH_IMPEDANCE)})
    => LET a == last.args.amplitude IN
       /\ (last.raised = "none") <=> (~float_lt(a, AMP_MIN) /\ ~float_gt(a, AMP_MAX_50_OHM))
       /\ ~float_gt(AMP_MAX_50_OHM, AMP_MAX_HIGH_Z)
       /\ (last.raised = "none")
          => /\ SDG1000_validate_amplitude(a, Some(LOAD_50_OHM))
             /\ SDG1000_validate_amplitude(a, Some(HIGH_IMPEDANCE))

\* 15 V, which High-Z allows, was rejected with no load given.
Wit_C16_FifteenVoltsRejectedByDefault ==
    /\ AmplitudeValidated
    /\ last.args.load_impedance = None
    /\ last.args.amplitude = Dec(15, 0)
    /\ last.raised = ValueError


(***************************************************************************)
(* Properties of the load, burst, waveform and sweep setters.              *)
(***************************************************************************)
\* The loads of the SDG2000X family, as its set_output_load documents them:
\* 50 to 10000 ohm, or HZ.
SDG2000X_LOAD_MIN == 50

SDG2000X_LOAD_MAX == 10000

\* The load a set_output_load argument names: 0 for High-Z, None if it names
\* none.
LoadNamed(load) ==
    IF load.t = "str" THEN (IF load.s = "HZ" THEN Some(0) ELSE None) ELSE Some(load.n)

LoadSupported(family, load) ==
    /\ LoadNamed(load) # None
    /\ LET n == LoadNamed(load)[1] IN
       IF family = "SDG1000" THEN n \in {50, 0}
       ELSE n = 0 \/ (SDG2000X_LOAD_MIN <= n /\ n <= SDG2000X_LOAD_MAX)

LoadSet == SetterCalled /\ last.op = "set_output_load"

\* C17 (as stated): on either facade set_output_load emits one OUTP LOAD
\* command when the load is a member of the family's supported loads (50 and
\* High-Z for SDG1000; 75 is a member for SDG2000X) and otherwise raises a
\* validation error and emits nothing.
Orig_C17_LoadMembership ==
    LoadSet =>
        IF LoadSupported(facade, last.args)
        THEN /\ last.raised = "none"
             /\ Len(last.writes) = 1
             /\ last.writes[1].cmd = "OUTP" /\ last.writes[1].key = "LOAD"
        ELSE last.raised = ValueError /\ last.writes = <<>>

BurstSet == SetterCalled /\ last.op = "set_burst"

\* C18 (as stated): set_burst with a given n_cycle succeeds exactly when
\* n_cycle lies in the family's inclusive range (1..50000 for SDG1000,
\* 1..65535 for SDG2000X) and otherwise raises before emitting anything.
Orig_C18_BurstCyclesRange ==
    (BurstSet /\ last.args.n_cycle # None)
    => LET n == last.args.n_cycle[1] IN
       IF 1 <= n /\ n <= FamilyBurstCyclesMax(facade)
       THEN last.raised = "none"
       ELSE last.raised = ValueError /\ last.writes = <<>>

\* C19: SDG1000.set_waveform emits exactly one 'BSWV WVTP,<kind>' command
\* when the kind is one of SINE, SQUARE, RAMP, PULSE, NOISE, ARB, and for
\* every other kind raises a validation error and emits nothing.
Thm_C19_WaveformKindMembership ==
    (SetterCalled /\ facade = "SDG1000" /\ last.op = "set_waveform")
    => IF last.args \in {"SINE", "SQUARE", "RAMP", "PULSE", "NOISE", "ARB"}
       THEN /\ last.raised = "none"
            /\ last.writes = <<Cmd(last.ch, "BSWV", "WVTP", last.args)>>
       ELSE last.raised = ValueError /\ last.writes = <<>>

\* DC was asked of the SDG1000 facade and refused with nothing written.
Wit_C19_DCRefused ==
    /\ facade = "SDG1000"
    /\ last.op = "set_waveform"
    /\ last.args = "DC"
    /\ last.raised = ValueError
    /\ last.writes = <<>>

SweepSet == SetterCalled /\ last.op = "set_sweep"

\* C20 (as stated): SDG1000.set_sweep given any sweep_type other than LIN,
\* compared case-insensitively, raises before any SWWV command is emitted,
\* whatever the state argument.
Orig_C20_EveryOtherSweepTypeRejected ==
    (SweepSet /\ facade = "SDG1000" /\ last.args.sweep_type # None
        /\ upper(last.args.sweep_type[1]) # "LIN")
    => last.raised = ValueError /\ last.writes = <<>>

\* C20 (amended): SDG1000.set_sweep given a non-empty sweep_type other than
\* LIN, compared case-insensitively, raises before any SWWV command is
\* emitted, whatever the state argument; an empty sweep_type is treated as
\* none given, and is never written.  SDG2000X.set_sweep accepts LIN and LOG
\* and writes the type when the state is ON.
Thm_C20_SweepTypeLinOnly ==
    (SweepSet /\ last.args.sweep_type # None)
    => LET t == last.args.sweep_type[1] IN
       IF facade = "SDG1000"
       THEN /\ (t # "" /\ upper(t) # "LIN")
               => last.raised = ValueError /\ last.writes = <<>>
            /\ \A i \in 1..Len(last.writes) :
                   last.writes[i].key = "SWTP" => upper(last.writes[i].val) = "LIN"
       ELSE (t \in {"LIN", "LOG"})
            => /\ last.raised = "none"
               /\ upper(last.args.state) = "ON"
                  => last.writes[Len(last.writes)] = Cmd(last.ch, "SWWV", "SWTP", t)

\* A LOG sweep was asked of the SDG1000 facade with the state OFF and refused
\* with nothing written.
Wit_C20_LogRefusedWithStateOff ==
    /\ facade = "SDG1000"
    /\ last.op = "set_sweep"
    /\ last.args.sweep_type = Some("LOG")
    /\ last.args.state = "OFF"
    /\ last.raised = ValueError
    /\ last.writes = <<>>


(***************************************************************************)
(* Properties of the arbitrary-waveform upload and of the offset setter.   *)
(***************************************************************************)
ArbUploaded == SetterCalled /\ facade = "SDG1000" /\ last.op = "upload_arbitrary_waveform"

\* C21: SDG1000.upload_arbitrary_waveform accepts a waveform exactly when it
\* has at most 4096 points; an accepted one emits the WVDT data command
\* first, a longer one raises and emits no WVDT command at all.
Thm_C21_ArbPointLimit ==
    ArbUploaded =>
        IF last.args.points <= 4096
        THEN /\ last.raised = "none"
             /\ Len(last.writes) >= 1
             /\ last.writes[1] = Cmd(last.ch, "WVDT", "WVNM", last.args.points)
        ELSE last.raised = ValueError /\ last.writes = <<>>

\* 4097 points with a sample rate were refused and nothing was written.
Wit_C21_OnePointTooManyRefused ==
    /\ ArbUploaded
    /\ last.args.points = 4097
    /\ last.args.sample_rate # None
    /\ last.raised = ValueError
    /\ last.writes = <<>>

OffsetSet == SetterCalled /\ facade = "SDG1000" /\ last.op = "set_wave_offset"

\* The offset maximum of a load the family supports.
OffsetMaxOfLoad(load) == IF load = 50 THEN OFFSET_MAX_50_OHM ELSE OFFSET_MAX_HIGH_Z

\* C22: with the channel's load read as 50 ohm or High-Z, set_wave_offset
\* accepts an offset v exactly when -max <= v <= max for the maximum of that
\* load (5 V, 10 V), bounds included; an accepted offset emits exactly one
\* 'BSWV OFST' command and a rejected one emits nothing.
Thm_C22_OffsetWithinLoadMaximum ==
    (OffsetSet /\ last.lookup = "ok" /\ dev.load \in {50, 0})
    => LET v == last.args
           max == OffsetMaxOfLoad(dev.load) IN
       IF ~float_gt(v, max) /\ ~float_lt(v, float_neg(max))
       THEN last.raised = "none" /\ last.writes = <<Cmd(last.ch, "BSWV", "OFST", v)>>
       ELSE last.raised = ValueError /\ last.writes = <<>>

\* -10 V, the negative bound, was written on a channel at High-Z.
Wit_C22_NegativeBoundAcceptedAtHighZ ==
    /\ OffsetSet
    /\ last.lookup = "ok"
    /\ dev.load = 0
    /\ last.args = Dec(-10, 0)
    /\ last.raised = "none"


(***************************************************************************)
(* Properties of the setters that read the channel before they validate.   *)
(***************************************************************************)
FrequencySet == SetterCalled /\ facade = "SDG1000" /\ last.op = "set_wave_frequency"

InGlobalRange(v) == ~float_lt(v, FREQ_MIN) /\ ~float_gt(v, FREQ_MAX)

\* C23: when the lookup of the channel's waveform kind fails in
\* set_wave_frequency (the query raises, or the response cannot be decoded),
\* the frequency is validated against the global range only: inside it the
\* frequency is written, whatever the channel's actual waveform; outside it
\* the call raises and writes nothing.
Thm_C23_FailedLookupGlobalRangeOnly ==
    (FrequencySet /\ last.lookup \in {"raise", "cut"})
    => IF InGlobalRange(last.args)
       THEN last.raised = "none" /\ last.writes = <<Cmd(last.ch, "BSWV", "FRQ", last.args)>>
       ELSE last.raised = ValueError /\ last.writes = <<>>

\* 300 kHz was written to a channel set to RAMP, whose lookup raised.
Wit_C23_AboveRampCapWritten ==
    /\ FrequencySet
    /\ last.lookup = "raise"
    /\ dev.wvtp = "RAMP"
    /\ last.args = Dec(3, 5)
    /\ last.raised = "none"

AmplitudeSet == SetterCalled /\ facade = "SDG1000" /\ last.op = "set_wave_amplitude"

\* C26: set_wave_amplitude validates against the load the output-state
\* lookup returned (10 V at 50 ohm, 20 V at High-Z); when the lookup fails or
\* reports no load it validates against the 50 ohm limit, so that an
\* amplitude above 10 V is rejected with nothing written and one in
\* [0.002, 10] is written, whatever the channel's actual load.
Thm_C26_AmplitudeAgainstReadLoad ==
    AmplitudeSet =>
        LET a == last.args
            max == IF last.lookup = "ok" /\ dev.load = 0 THEN Dec(20, 0) ELSE Dec(10, 0) IN
        IF ~float_lt(a, Dec(2, -3)) /\ ~float_gt(a, max)
        THEN last.raised = "none" /\ last.writes = <<Cmd(last.ch, "BSWV", "AMP", a)>>
        ELSE last.raised = ValueError /\ last.writes = <<>>

\* 15 V was refused on a channel at High-Z whose lookup raised.
Wit_C26_FifteenVoltsRefusedAtHighZ ==
    /\ AmplitudeSet
    /\ last.lookup = "raise"
    /\ dev.load = 0
    /\ last.args = Dec(15, 0)
    /\ last.raised = ValueError
    /\ last.writes = <<>>

PeriodSet == SetterCalled /\ facade = "SDG1000" /\ last.op = "set_wave_period"

\* C27: set_wave_period raises and writes nothing for every period <= 0;
\* for a period > 0 it writes exactly one 'BSWV PERI' command exactly when
\* 1/period passes the validation set_wave_frequency applies (global range
\* and the cap of the waveform kind the lookup returned), and otherwise
\* raises and writes nothing.
Thm_C27_PeriodValidatedAsFrequency ==
    PeriodSet =>
        LET p == last.args
            kind == current_waveform_type(last.ch, last.lookup)
            cap == WaveformCap(kind) IN
        IF /\ float_gt(p, Dec(0, 0))
           /\ InGlobalRange(Reciprocal(p))
           /\ (cap = None \/ ~float_gt(Reciprocal(p), cap[1]))
        THEN last.raised = "none" /\ last.writes = <<Cmd(last.ch, "BSWV", "PERI", p)>>
        ELSE last.raised = ValueError /\ last.writes = <<>>

\* A period of 100 ns (10 MHz) was refused on a channel read as RAMP.
Wit_C27_ShortPeriodRefusedForRamp ==
    /\ PeriodSet
    /\ last.lookup = "ok"
    /\ dev.wvtp = "RAMP"
    /\ last.args = Dec(1, -7)
    /\ last.raised = ValueError


\* C30: set_wave_offset is fail-safe: an offset whose absolute value is above
\* 5 V is written only when the lookup succeeded and reported High-Z; with a
\* failed lookup, a response without LOAD, or another load such as 75 ohm,
\* the offset is validated against 5 V.
Orig_C30_OffsetFailSafe ==
    (OffsetSet /\ (float_gt(last.args, Dec(5, 0)) \/ float_lt(last.args, Dec(-5, 0))))
    => (last.writes # <<>> => (last.lookup = "ok" /\ dev.load = 0))


(***************************************************************************)
(* Read operations of the SDG1000 class.  Each sends one query and decodes *)
(* the comma-separated answer; last records the answer decoded (args), the *)
(* exception raised and the dictionary returned (result).                  *)
(***************************************************************************)
ReadModes == {"ok", "cut", "nokey", "odd", "extra"}

\* What the channel answers to BTWV?, SWWV? and MDWV?
BTWV_response(ch, mode) ==
    CASE mode = "ok"    -> <<ch \o ":BTWV STATE", "ON", "PRD", "0.01S">>
      [] mode = "cut"   -> <<ch \o ":BTWV STATE">>
      [] mode = "nokey" -> <<"PRD", "0.01S">>
      [] mode = "odd"   -> <<ch \o ":BTWV STATE", "ON", "PRD">>
      [] mode = "extra" -> <<ch \o ":BTWV STATE", "ON", "XYZ", "1">>

SWWV_response(ch, mode) ==
    CASE mode = "ok"    -> <<ch \o ":SWWV STATE", "ON", "TIME", "1S">>
      [] mode = "cut"   -> <<ch \o ":SWWV STATE">>
      [] mode = "nokey" -> <<"TIME", "1S">>
      [] mode = "odd"   -> <<ch \o ":SWWV STATE", "ON", "TIME">>
      [] mode = "extra" -> <<ch \o ":SWWV STATE", "ON", "XYZ", "1">>

MDWV_response(ch, mode) ==
    CASE mode = "ok"    -> <<ch \o ":MDWV STATE", "ON", "AM", "SINE">>
      [] mode = "cut"   -> <<ch \o ":MDWV STATE">>
      [] mode = "nokey" -> <<"AM", "SINE">>
      [] mode = "odd"   -> <<ch \o ":MDWV STATE", "ON", "AM">>
      [] mode = "extra" -> <<ch \o ":MDWV STATE", "ON", "XYZ", "1">>

\* What the channel answers to ARWV?; the first field is shown split at its blank.
ARWV_response(ch, mode) ==
    CASE mode = "ok"    -> << <<ch \o ":ARWV", "INDEX">>, "2", "NAME", "StairUp">>
      [] mode = "cut"   -> << <<ch \o ":ARWV", "INDEX">> >>
      [] mode = "nokey" -> << <<ch \o ":ARWV", "NAME">>, "StairUp">>
      [] mode = "odd"   -> << <<ch \o ":ARWV", "INDEX">>, "2", "NAME">>
      [] mode = "extra" -> << <<ch \o ":ARWV", "INDEX">>, "2", "XYZ", "1">>

\* str.lower() on the keys the instrument sends
lower(x) ==
    CASE x = "C1:BTWV STATE" -> "c1:btwv state" [] x = "C2:BTWV STATE" -> "c2:btwv state"
      [] x = "C1:SWWV STATE" -> "c1:swwv state" [] x = "C2:SWWV STATE" -> "c2:swwv state"
      [] x = "C1:MDWV STATE" -> "c1:mdwv state" [] x = "C2:MDWV STATE" -> "c2:mdwv state"
      [] x = "PRD" -> "prd" [] x = "TIME" -> "time" [] x = "AM" -> "am" [] x = "XYZ" -> "xyz"

\* The loop of get_burst_settings, get_sweep_settings and
\* get_modulation_settings: every even offset i with i + 1 inside the list
\* gives one entry, lower-cased key to value; a later entry replaces an
\* earlier one with the same key, and a last field without a partner is
\* skipped.
settings_dict(fields) ==
    LET at == {i \in 1..Len(fields) : i % 2 = 1 /\ i + 1 <= Len(fields)}
        keys == {lower(fields[i]) : i \in at} IN
    [k \in keys |->
        fields[(CHOOSE i \in at : lower(fields[i]) = k
                                   /\ \A j \in at : lower(fields[j]) = k => j <= i) + 1]]

get_burst_settings(response) == Some(settings_dict(response))

get_sweep_settings(response) == Some(settings_dict(response))

get_modulation_settings(response) == Some(settings_dict(response))

\* int(value) for the indices the instrument sends
ParseInt == [t \in {"2"} |-> 2]

\* get_arb_wave_type: the channel's prefix is taken off the answer, and the
\* loop runs over range(0, len(fields) - 1, 2), so that a last field without
\* a partner is skipped.
get_arb_wave_type(ch, response) ==
    LET head == response[1]
        fields == <<IF head[1] = ch \o ":ARWV" THEN head[2] ELSE head[1] \o " " \o head[2]>>
                  \o Tail(response)
        at == {i \in 1..(Len(fields) - 1) : i % 2 = 1}
        index == {i \in at : fields[i] = "INDEX"}
        name == {i \in at : fields[i] = "NAME"} IN
    Some([index |-> IF index = {} THEN None
                    ELSE Some(ParseInt[fields[(CHOOSE i \in index : \A j \in index : j <= i) + 1]]),
          name |-> IF name = {} THEN None
                   ELSE Some(fields[(CHOOSE i \in name : \A j \in name : j <= i) + 1])])

ReadRecord(op, ch, response, mode, result, error) ==
    [op |-> op, ch |-> ch, args |-> response, lookup |-> mode,
     raised |-> IF result = None THEN error ELSE "none", writes |-> <<>>,
     result |-> result]

SDG1000_get_output_state ==
    /\ facade = "SDG1000"
    /\ \E mode \in ReadModes :
        LET response == OUTP_response(dev.ch, mode) IN
        Finish(ReadRecord("get_output_state", dev.ch, response, mode,
                          get_output_state(response), "UnboundLocalError"))

SDG1000_get_wave_info ==
    /\ facade = "SDG1000"
    /\ \E mode \in ReadModes :
        LET response == BSWV_response(dev.ch, mode) IN
        Finish(ReadRecord("get_wave_info", dev.ch, response, mode,
                          get_wave_info(response), "IndexError"))

SDG1000_get_burst_settings ==
    /\ facade = "SDG1000"
    /\ \E mode \in ReadModes :
        LET response == BTWV_response(dev.ch, mode) IN
        Finish(ReadRecord("get_burst_settings", dev.ch, response, mode,
                          get_burst_settings(response), "none"))

SDG1000_get_sweep_settings ==
    /\ facade = "SDG1000"
    /\ \E mode \in ReadModes :
        LET response == SWWV_response(dev.ch, mode) IN
        Finish(ReadRecord("get_sweep_settings", dev.ch, response, mode,
                          get_sweep_settings(response), "none"))

SDG1000_get_modulation_settings ==
    /\ facade = "SDG1000"
    /\ \E mode \in ReadModes :
        LET response == MDWV_response(dev.ch, mode) IN
        Finish(ReadRecord("get_modulation_settings", dev.ch, response, mode,
                          get_modulation_settings(response), "none"))

SDG1000_get_arb_wave_type ==
    /\ facade = "SDG1000"
    /\ \E mode \in ReadModes :
        LET response == ARWV_response(dev.ch, mode) IN
        Finish(ReadRecord("get_arb_wave_type", dev.ch, response, mode,
                          get_arb_wave_type(dev.ch, response), "none"))

ReadNext ==
    \/ SDG1000_get_output_state
    \/ SDG1000_get_wave_info
    \/ SDG1000_get_burst_settings
    \/ SDG1000_get_sweep_settings
    \/ SDG1000_get_modulation_settings
    \/ SDG1000_get_arb_wave_type

InitRead == SetInit /\ DetIdle /\ facade = "SDG1000"

SpecRead == InitRead /\ [][ReadNext]_vars

ReadOperations ==
    {"get_output_state", "get_wave_info", "get_burst_settings", "get_sweep_settings",
     "get_modulation_settings", "get_arb_wave_type"}

ReadCalled == facade = "SDG1000" /\ last.op \in ReadOperations

\* The response splits into key/value pairs after the prefix: an even number
\* of fields, after the state word that OUTP? puts behind its prefix.
ResponsePaired ==
    IF last.op \in {"get_output_state"}
    THEN Len(last.args[1]) = 2 /\ (Len(last.args) - 1) % 2 = 0
    ELSE IF last.op = "get_arb_wave_type"
    THEN Len(last.args[1]) = 2 /\ Len(last.args) % 2 = 0
    ELSE Len(last.args) % 2 = 0

\* C24: every read operation fails, and returns no mapping, when the response
\* does not split into an even number of key/value tokens after the prefix;
\* a well-formed response with an unrecognised key does not fail.
Orig_C24_OddResponseFails ==
    ReadCalled =>
        IF ~ResponsePaired
        THEN last.raised # "none" /\ last.result = None
        ELSE last.lookup = "extra" => last.raised = "none"


(***************************************************************************)
(* Detection of a designator and of the designator with characters added   *)
(* behind it.                                                              *)
(***************************************************************************)
\* What detection gives for a two-field identification with designator d.
DetectDesignator(d) == detect_model_from_idn(<<"V">> \o Comma \o d)

\* The designators d of which the second field of idn is an extension d + s.
DesignatorsExtended ==
    LET field == RawSecondField(idn) IN
    {SubSeq(field, 1, k) : k \in 0..Len(field)}

SuffixChecked == detOut # "none" /\ CommaPositions(idn) # {}

get_supported_models == {"SDG1000", "SDG2000X"}

\* create_instrument without a hint has ended on a device that answered the
\* identification query with a line of two fields or more, and no call of
\* the transport failed.
CreatedFromIdentification ==
    /\ CreateWithoutHint
    /\ pc = "done"
    /\ CommaPositions(devIdn) # {}
    /\ \A i \in 1..Len(events) : events[i].ok

\* C28: whenever validate_model_name(d) reports a family F as supported, F
\* is in get_supported_models() and create_instrument on a device that
\* identifies as d does not fail with UnsupportedModelError.
Orig_C28_ValidatedIsConstructible ==
    CreatedFromIdentification =>
        LET v == validate_model_name(Strip(RawSecondField(devIdn))) IN
        v.is_supported =>
            /\ v.model_family[1] \in get_supported_models
            /\ outcome # Raised(UnsupportedModelError)


(***************************************************************************)
(* One channel of an SDG1000 under set_waveform and set_wave_frequency.    *)
(* The device state carries the commanded frequency next to the waveform   *)
(* kind, it starts at 1 kHz, which every kind allows, and BSWV? is         *)
(* answered in full with the kind the channel was last commanded.          *)
(***************************************************************************)
ChannelStates == [ch : Channels, wvtp : DeviceKinds, load : {50}, frq : {Dec(1, 3)}]

\* set_wave_frequency whose lookup is answered truthfully.
SDG1000_set_wave_frequency_truthful == SDG1000_set_wave_frequency /\ last'.lookup = "ok"

ChannelNext ==
    \/ SDG1000_set_waveform
    \/ SDG1000_set_wave_frequency_truthful

InitChannel ==
    /\ FacadeCreated
    /\ facade = "SDG1000"
    /\ dev \in ChannelStates
    /\ last = [op |-> "none"]
    /\ DetIdle

SpecChannel == InitChannel /\ [][ChannelNext]_vars

\* C29: after any sequence of set_waveform and set_wave_frequency calls on
\* one channel, with BSWV? answered truthfully, the last commanded waveform
\* kind and the last commanded frequency satisfy the kind's frequency cap.
Orig_C29_KindAndFrequencyWithinCap ==
    (facade = "SDG1000" /\ "frq" \in DOMAIN dev)
    => LET cap == WaveformCap(Some(dev.wvtp)) IN
       cap = None \/ ~float_gt(dev.frq, cap[1])

=============================================================================
